---- MODULE Spec2Model ----
(***************************************************************************)
(* Notification dispatch engine of bot_bgpk.py: the schedule notification  *)
(* scanner (check_and_notify_upcoming_classes) with its lesson lookup and  *)
(* persisted dedup ledger, and the two Firestore change-feed listeners     *)
(* (ApplicationsListener, NewsListener) with their tracked sets and the    *)
(* hand-off of deliveries to the asyncio loop.                             *)
(*                                                                         *)
(* Time is an absolute number of seconds since Monday 00:00:00; the        *)
(* calendar date is the absolute day number, the weekday is the day number *)
(* modulo 7.  Synchronous code takes no time: the clock moves only where   *)
(* the code suspends (asyncio.sleep, bot.send_message).                    *)
(***************************************************************************)
EXTENDS Integers, Sequences, FiniteSets, TLC

\* ------------------------------------------------------------------ bounds
MaxTicks == 4
\* faults per run: a send that raises, a send that takes SlowSend seconds, a crash
MaxFaults == 3
\* process crashes per run
MaxCrashes == 1
\* writes to the Firestore collections (by the site or by an administrator) per run
MaxOps == 2

\* ------------------------------------------------------- program constants
TickSeconds == 60
check_windows == <<5, 10, 20, 30>>

DaySeconds == 24 * 60 * 60
\* days_en.index(...): Monday is weekday 0
Monday == 0
Tuesday == Monday + 1

VARIABLES
    now,          \* wall clock, absolute seconds
    users,        \* table users: phone -> [tg_id, class_name, events_notifications]
    schedule,     \* table schedule: set of lesson rows
    ledger,       \* table notifications_sent: sequence of rows (autoincrement id = position)
    pc,           \* where the scanner coroutine stands
    scanUsers,    \* the user rows read at the start of the tick
    scanIdx,      \* index of the user being processed
    scanWin,      \* index into check_windows of the window being processed
    upcoming,     \* the lesson the pending send is about
    tick,         \* number of ticks begun
    checked,      \* lookups made in the current tick: <<phone, window, lesson_number or 0,
                  \* events_notifications of the phone at that moment,
                  \* what the dedup check said: "already", "absent", or "none" (not made)>>
    deliveries,   \* every message the transport accepted
    lastError,    \* how the last tick ended: "none" or the exception that escaped it
    crashes,      \* number of process crashes so far
    faults,       \* number of transport faults so far
    collection,   \* Firestore: listener -> document id -> state of the document
    tracking,     \* tracking_applications / tracking_news
    lstate,       \* how far each listener got: created .. subscribed .. unsubscribed
    mainPc,       \* where main() stands
    loopRunning,  \* loop.is_running()
    feed,         \* changes the feed client has not yet delivered to the callback
    cbBatch,      \* the batch the callback was last called with
    cbIdx,        \* index in cbBatch of the change the callback is at
    cbPc,         \* where the callback (on the feed client's thread) stands
    tasks,        \* coroutines submitted to the loop and not yet run
    handoffs,     \* listener -> id -> number of deliveries submitted
    adds,         \* listener -> id -> number of times the callback added the id
    skipped,      \* listener -> <<id, change type>> of qualifying changes found tracked
    ran,          \* delivery coroutines executed, with the context that ran them
    seeded,       \* listener -> the documents (id, state) the seed scan read
    deletes,      \* id -> number of administrative deletes
    ops,          \* number of writes by the site, administrators and subscribers so far
    unsubCalls,   \* listener -> number of times its unsubscribe handle was invoked
    earlier,      \* listener -> ids handed off in an earlier lifetime of the process
    fanPc,        \* where the delivery coroutine (_send_notification_to_...) stands
    fanTask,      \* the delivery it runs: listener and whether the article has an image
    fanList,      \* admin_tg_ids / user_tg_ids: the rows the query returned
    fanIdx,       \* index in fanList of the recipient being served
    attempts,     \* every bot.send_photo / bot.send_message call made, with its outcome
    success_count, \* success_count (logging.info lines of the administrators' pass)
    failed_count, \* failed_count (logging.error lines of the administrators' pass)
    resolvedFrom  \* the users table as it was when the recipient query ran

scannerVars == <<now, users, schedule, ledger, pc, scanUsers, scanIdx, scanWin,
                 upcoming, tick, checked, deliveries, lastError, crashes, faults>>

feedVars == <<collection, tracking, lstate, mainPc, loopRunning, feed, cbBatch, cbIdx, cbPc,
              tasks, handoffs, adds, skipped, ran, seeded, deletes, ops, unsubCalls, earlier>>

fanVars == <<fanPc, fanTask, fanList, fanIdx, attempts, success_count, failed_count,
             resolvedFrom>>

vars == <<scannerVars, feedVars, fanVars>>

\* --------------------------------------------------------------- the clock
At(day, h, m, s) == ((day * 24 + h) * 60 + m) * 60 + s
DateOf(t) == t \div DaySeconds
WeekdayOf(t) == DateOf(t) % 7
SecondOfDay(t) == t % DaySeconds

\* ------------------------------------------------------------ stored data
NoTg == "NULL"
Num(v) == [isnum |-> TRUE, v |-> v]
Txt == [isnum |-> FALSE, v |-> 0]
HHMM(h, m) == <<Num(h), Num(m)>>
Lesson(c, d, n, st) == [class_name |-> c, day_name |-> d, lesson_number |-> n, start_time |-> st]
NoLesson == [class_name |-> "", day_name |-> 0, lesson_number |-> 0, start_time |-> <<>>]

Phones == {"p1", "p2"}
PhoneOrder == <<"p1", "p2">>

Schedules ==
    { {Lesson("A", Monday, 1, HHMM(8, 30))},
      {Lesson("A", Monday, 1, HHMM(8, 40)), Lesson("A", Monday, 2, HHMM(8, 30))},
      {Lesson("A", Tuesday, 1, HHMM(0, 3))},
      {Lesson("A", Monday, 1, <<Txt, Num(30)>>), Lesson("A", Monday, 2, HHMM(8, 30))},
      {Lesson("A", Monday, 1, <<Num(8)>>), Lesson("A", Monday, 2, HHMM(8, 30))} }

StartTimes ==
    { At(Monday, 7, 59, 30), At(Monday, 8, 9, 30), At(Monday, 8, 12, 0),
      At(Monday, 8, 28, 30), At(Monday, 23, 54, 30), At(Monday, 23, 58, 0),
      At(Monday, 23, 59, 40) }

SlowSend == 30
SendDelays == {0, SlowSend}
Cost(d) == IF d = 0 THEN 0 ELSE 1

SecondUsers ==
    { [tg_id |-> "t2", class_name |-> "A", events_notifications |-> 1],
      [tg_id |-> "t2", class_name |-> "B", events_notifications |-> 1],
      [tg_id |-> "t2", class_name |-> "A", events_notifications |-> 0],
      [tg_id |-> NoTg, class_name |-> "A", events_notifications |-> 1] }

Listeners == {"applications", "news"}
Docs == {"d1", "d2"}
DocOrder == <<"d1", "d2">>

\* --------------------------------------------------------------- db_* code
\* mutant: the flag is not looked at
MutantIgnoreFlag(phone) == TRUE

db_get_events_notifications(phone) == users[phone].events_notifications = 1

\* SELECT ... ORDER BY lesson_number
RECURSIVE SortByNumber(_)
SortByNumber(S) ==
    IF S = {} THEN <<>>
    ELSE LET first == CHOOSE l \in S : \A o \in S : l.lesson_number <= o.lesson_number
         IN <<first>> \o SortByNumber(S \ {first})

DaySchedule(class_name, day) ==
    SortByNumber({l \in schedule : l.class_name = class_name /\ l.day_name = day})

\* start_parts = start_time.split(":"); now.replace(hour=int(p[0]), minute=int(p[1]), ...)
ParseStart(parts) ==
    IF ~parts[1].isnum THEN [kind |-> "ValueError", sec |-> 0]
    ELSE IF Len(parts) < 2 THEN [kind |-> "IndexError", sec |-> 0]
    ELSE IF ~parts[2].isnum THEN [kind |-> "ValueError", sec |-> 0]
    ELSE IF parts[1].v \notin 0..23 \/ parts[2].v \notin 0..59
         THEN [kind |-> "ValueError", sec |-> 0]
    ELSE [kind |-> "ok", sec |-> (parts[1].v * 60 + parts[2].v) * 60]

\* time_diff of a lesson of today, in seconds
TodayDiff(sec) == sec - SecondOfDay(now)
\* mutant: tomorrow's lesson compared by time of day only
MutantTomorrowSameDay(sec) == sec - SecondOfDay(now)

\* time_diff of a lesson of tomorrow: tomorrow_date = now + timedelta(days=1)
TomorrowDiff(sec) == DaySeconds + sec - SecondOfDay(now)

Found(l, d) == [kind |-> "lesson", lesson |-> l, day |-> d]
NotFound == [kind |-> "none", lesson |-> NoLesson, day |-> "none"]
Raised(e) == [kind |-> e, lesson |-> NoLesson, day |-> "none"]

\* the loop over tomorrow_schedule
RECURSIVE ScanTomorrow(_, _)
ScanTomorrow(seq, minutes_ahead) ==
    IF seq = <<>> THEN NotFound
    ELSE LET p == ParseStart(Head(seq).start_time) IN
         IF p.kind = "IndexError" THEN Raised("IndexError")
         ELSE IF p.kind = "ValueError" THEN ScanTomorrow(Tail(seq), minutes_ahead)
         ELSE IF 0 <= TomorrowDiff(p.sec) /\ TomorrowDiff(p.sec) <= minutes_ahead * 60
              THEN Found(Head(seq), "tomorrow")
         ELSE ScanTomorrow(Tail(seq), minutes_ahead)

\* mutant: a lesson that starts at this very second is taken as already begun
RECURSIVE MutantStartsNowIsPast(_, _, _)
MutantStartsNowIsPast(seq, rest, minutes_ahead) ==
    IF seq = <<>> THEN ScanTomorrow(rest, minutes_ahead)
    ELSE LET p == ParseStart(Head(seq).start_time) IN
         IF p.kind = "IndexError" THEN Raised("IndexError")
         ELSE IF p.kind = "ValueError" THEN MutantStartsNowIsPast(Tail(seq), rest, minutes_ahead)
         ELSE IF TodayDiff(p.sec) > 0 /\ TodayDiff(p.sec) <= minutes_ahead * 60
              THEN Found(Head(seq), "today")
         ELSE MutantStartsNowIsPast(Tail(seq), rest, minutes_ahead)

\* the loop over today_schedule, falling through to tomorrow
RECURSIVE ScanToday(_, _, _)
ScanToday(seq, rest, minutes_ahead) ==
    IF seq = <<>> THEN ScanTomorrow(rest, minutes_ahead)
    ELSE LET p == ParseStart(Head(seq).start_time) IN
         IF p.kind = "IndexError" THEN Raised("IndexError")
         ELSE IF p.kind = "ValueError" THEN ScanToday(Tail(seq), rest, minutes_ahead)
         ELSE IF TodayDiff(p.sec) >= 0 /\ TodayDiff(p.sec) <= minutes_ahead * 60
              THEN Found(Head(seq), "today")
         ELSE ScanToday(Tail(seq), rest, minutes_ahead)

db_get_upcoming_class(phone, minutes_ahead) ==
    LET class_name == users[phone].class_name
        today == WeekdayOf(now)
        tomorrow == (today + 1) % 7
    IN ScanToday(DaySchedule(class_name, today), DaySchedule(class_name, tomorrow),
                 minutes_ahead)

\* mutant: the ledger is never found to hold the key
MutantNeverSent(phone, class_name, day_name, lesson_number) == FALSE

\* mutant: the row's full timestamp is compared instead of its date prefix
MutantCheckWholeTimestamp(phone, class_name, day_name, lesson_number) ==
    \E k \in 1..Len(ledger) :
        /\ ledger[k].user_phone = phone
        /\ ledger[k].class_name = class_name
        /\ ledger[k].day_name = day_name
        /\ ledger[k].lesson_number = lesson_number
        /\ ledger[k].sent_date = now

\* SELECT COUNT(*) ... AND sent_date LIKE 'today%'
check_notification_already_sent(phone, class_name, day_name, lesson_number) ==
    \E k \in 1..Len(ledger) :
        /\ ledger[k].user_phone = phone
        /\ ledger[k].class_name = class_name
        /\ ledger[k].day_name = day_name
        /\ ledger[k].lesson_number = lesson_number
        /\ DateOf(ledger[k].sent_date) = DateOf(now)

LedgerRow(phone, class_name, day_name, lesson_number, at) ==
    [user_phone |-> phone, class_name |-> class_name, day_name |-> day_name,
     lesson_number |-> lesson_number, sent_date |-> at]

\* mutant: the INSERT is never committed
MutantRecordNotCommitted(phone, class_name, day_name, lesson_number) == ledger

\* INSERT INTO notifications_sent ... sent_date = now
db_record_notification_sent(phone, class_name, day_name, lesson_number) ==
    Append(ledger, LedgerRow(phone, class_name, day_name, lesson_number, now))

\* --------------------------------------------- check_and_notify_upcoming_classes
\* SELECT * FROM users WHERE tg_id IS NOT NULL
RECURSIVE ReadUsers(_)
ReadUsers(order) ==
    IF order = <<>> THEN <<>>
    ELSE LET phone == Head(order) IN
         (IF users[phone].tg_id # NoTg
          THEN <<[phone |-> phone, tg_id |-> users[phone].tg_id,
                  class_name |-> users[phone].class_name]>>
          ELSE <<>>) \o ReadUsers(Tail(order))

Suspended(p, i, w, up, lg, e) ==
    [pc |-> p, idx |-> i, win |-> w, up |-> up, log |-> lg, err |-> e]

\* mutant: an already notified lesson does not end the windows of the subscriber
MutantAlreadyEscalates(i, w) == [idx |-> i, win |-> w + 1]

\* else: logging.debug("Already notified ..."); break  -- on to the next user
AlreadyNotified(i, w) == [idx |-> i + 1, win |-> 1]

\* what the tick did with the result of a lookup: no dedup check without a lesson
DedupResult(phone, class_name, r) ==
    IF r.kind # "lesson" THEN "none"
    ELSE IF check_notification_already_sent(phone, class_name,
                                            r.lesson.day_name, r.lesson.lesson_number)
         THEN "already"
    ELSE "absent"

\* The synchronous part of the tick body: from user i, window w, up to the next
\* suspension: the await of a send, or the sleep that ends the tick.
RECURSIVE ScanFrom(_, _, _)
ScanFrom(i, w, lg) ==
    IF i > Len(scanUsers) THEN Suspended("sleep", i, 1, NotFound, lg, "none")
    ELSE LET user == scanUsers[i] IN
         IF w = 1 /\ ~db_get_events_notifications(user.phone) THEN ScanFrom(i + 1, 1, lg)
         ELSE IF w > Len(check_windows) THEN ScanFrom(i + 1, 1, lg)
         ELSE LET r == db_get_upcoming_class(user.phone, check_windows[w])
                  already_sent == DedupResult(user.phone, user.class_name, r)
                  lg2 == Append(lg, <<user.phone, check_windows[w], r.lesson.lesson_number,
                                      users[user.phone].events_notifications, already_sent>>)
              IN IF r.kind = "IndexError"
                 THEN Suspended("sleep", i, w, NotFound, lg2, "IndexError")
                 ELSE IF r.kind = "none" THEN ScanFrom(i, w + 1, lg2)
                 ELSE IF already_sent = "already"
                      THEN ScanFrom(AlreadyNotified(i, w).idx, AlreadyNotified(i, w).win, lg2)
                      ELSE Suspended("send", i, w, r, lg2, "none")

\* The occurrence a found lesson is: the calendar date its start falls on.
OccurrenceDate(up, t) == IF up.day = "tomorrow" THEN DateOf(t) + 1 ELSE DateOf(t)

Delivery(user, up, w, sentAt, foundAt) ==
    [phone |-> user.phone, tg_id |-> user.tg_id, class_name |-> up.lesson.class_name,
     day_name |-> up.lesson.day_name, lesson_number |-> up.lesson.lesson_number,
     window |-> check_windows[w], at |-> sentAt, occurrence |-> OccurrenceDate(up, foundAt),
     tick |-> tick]

\* the loop can run a message handler: every coroutine is suspended in an await
LoopFree == pc \in {"ready", "send", "sleep"}

\* mutant: a second scanner task begins its tick while the first awaits its send
MutantSecondScanner ==
    /\ pc \in {"ready", "send"}
    /\ tick' = tick + 1
    /\ scanUsers' = ReadUsers(PhoneOrder)
    /\ scanIdx' = 1
    /\ scanWin' = 1
    /\ checked' = <<>>
    /\ upcoming' = NotFound
    /\ lastError' = "none"
    /\ pc' = "run"
    /\ UNCHANGED <<fanVars, feedVars, now, users, schedule, ledger, deliveries, crashes, faults>>

\* while True: ... users = SELECT ...; for user in users:
Tick ==
    /\ pc = "ready"
    /\ tick' = tick + 1
    /\ scanUsers' = ReadUsers(PhoneOrder)
    /\ scanIdx' = 1
    /\ scanWin' = 1
    /\ checked' = <<>>
    /\ upcoming' = NotFound
    /\ lastError' = "none"
    /\ pc' = "run"
    /\ UNCHANGED <<fanVars, feedVars, now, users, schedule, ledger, deliveries, crashes, faults>>

\* the loop body runs up to its next await
Run ==
    /\ pc = "run"
    /\ LET r == ScanFrom(scanIdx, scanWin, checked) IN
        /\ pc' = r.pc
        /\ scanIdx' = r.idx
        /\ scanWin' = r.win
        /\ upcoming' = r.up
        /\ checked' = r.log
        /\ lastError' = r.err
    /\ UNCHANGED <<fanVars, feedVars, now, users, schedule, ledger, scanUsers, tick, deliveries, crashes, faults>>

\* await bot.send_message(tg_id, message_text) returns
SendOk ==
    /\ pc = "send"
    /\ \E d \in SendDelays :
        /\ faults + Cost(d) <= MaxFaults
        /\ faults' = faults + Cost(d)
        /\ now' = now + d
        /\ deliveries' = Append(deliveries,
                                Delivery(scanUsers[scanIdx], upcoming, scanWin, now + d, now))
    /\ pc' = "sent"
    /\ UNCHANGED <<fanVars, feedVars, users, schedule, ledger, scanUsers, scanIdx, scanWin, upcoming, tick,
                   checked, lastError, crashes>>

\* db_record_notification_sent(...); break
Record ==
    /\ pc = "sent"
    /\ ledger' = db_record_notification_sent(
                     scanUsers[scanIdx].phone, scanUsers[scanIdx].class_name,
                     upcoming.lesson.day_name, upcoming.lesson.lesson_number)
    /\ scanIdx' = scanIdx + 1
    /\ scanWin' = 1
    /\ pc' = "run"
    /\ UNCHANGED <<fanVars, feedVars, now, users, schedule, scanUsers, upcoming, tick, checked, deliveries,
                   lastError, crashes, faults>>

\* mutant: the row is written although the send raised
MutantSendFailRecords ==
    /\ pc = "send"
    /\ \E d \in SendDelays :
        /\ faults + 1 + Cost(d) <= MaxFaults
        /\ faults' = faults + 1 + Cost(d)
        /\ now' = now + d
    /\ ledger' = db_record_notification_sent(
                     scanUsers[scanIdx].phone, scanUsers[scanIdx].class_name,
                     upcoming.lesson.day_name, upcoming.lesson.lesson_number)
    /\ scanWin' = scanWin + 1
    /\ pc' = "run"
    /\ UNCHANGED <<fanVars, feedVars, users, schedule, scanUsers, scanIdx, upcoming, tick, checked,
                   deliveries, lastError, crashes>>

\* await bot.send_message raises: except Exception: logging.error(...); the for loop
\* over check_windows goes on
SendFail ==
    /\ pc = "send"
    /\ \E d \in SendDelays :
        /\ faults + 1 + Cost(d) <= MaxFaults
        /\ faults' = faults + 1 + Cost(d)
        /\ now' = now + d
    /\ scanWin' = scanWin + 1
    /\ pc' = "run"
    /\ UNCHANGED <<fanVars, feedVars, users, schedule, ledger, scanUsers, scanIdx, upcoming, tick, checked,
                   deliveries, lastError, crashes>>

\* mutant: an exception that escapes the tick ends the task
MutantTaskDiesOnError ==
    /\ pc = "sleep"
    /\ lastError = "none"
    /\ tick < MaxTicks
    /\ now' = now + TickSeconds
    /\ pc' = "ready"
    /\ UNCHANGED <<fanVars, feedVars, users, schedule, ledger, scanUsers, scanIdx, scanWin, upcoming, tick,
                   checked, deliveries, lastError, crashes, faults>>

\* await asyncio.sleep(60) returns (after a tick that ended normally or in the outer except)
Sleep ==
    /\ pc = "sleep"
    /\ tick < MaxTicks
    /\ now' = now + TickSeconds
    /\ pc' = "ready"
    /\ UNCHANGED <<fanVars, feedVars, users, schedule, ledger, scanUsers, scanIdx, scanWin, upcoming, tick,
                   checked, deliveries, lastError, crashes, faults>>

InitScanner ==
    /\ now \in StartTimes
    /\ schedule \in Schedules
    /\ \E u2 \in SecondUsers :
        users = [p \in Phones |->
                    IF p = "p1"
                    THEN [tg_id |-> "t1", class_name |-> "A", events_notifications |-> 1]
                    ELSE u2]
    /\ ledger = <<>>
    /\ pc = "ready"
    /\ scanUsers = <<>>
    /\ scanIdx = 1
    /\ scanWin = 1
    /\ upcoming = NotFound
    /\ tick = 0
    /\ checked = <<>>
    /\ deliveries = <<>>
    /\ lastError = "none"
    /\ crashes = 0
    /\ faults = 0

\* the process dies and is started again: main() creates the scanner task anew;
\* students.db (users, schedule, notifications_sent) is all that survives
Crash ==
    /\ crashes < MaxCrashes
    /\ faults < MaxFaults
    /\ crashes' = crashes + 1
    /\ faults' = faults + 1
    /\ pc' = "ready"
    /\ scanUsers' = <<>>
    /\ scanIdx' = 1
    /\ scanWin' = 1
    /\ upcoming' = NotFound
    /\ checked' = <<>>
    /\ lastError' = "none"
    /\ UNCHANGED <<fanVars, feedVars, now, users, schedule, ledger, tick, deliveries>>

\* the listeners before main() has started them
InitFeedIdle ==
    /\ collection = [l \in Listeners |-> [d \in Docs |-> "absent"]]
    /\ tracking = [l \in Listeners |-> {}]
    /\ lstate = [l \in Listeners |-> "created"]
    /\ mainPc = "start"
    /\ loopRunning = TRUE
    /\ feed = [l \in Listeners |-> <<>>]
    /\ cbBatch = [l \in Listeners |-> <<>>]
    /\ cbIdx = [l \in Listeners |-> 1]
    /\ cbPc = [l \in Listeners |-> "idle"]
    /\ tasks = <<>>
    /\ handoffs = [l \in Listeners |-> [d \in Docs |-> 0]]
    /\ adds = [l \in Listeners |-> [d \in Docs |-> 0]]
    /\ skipped = [l \in Listeners |-> {}]
    /\ ran = {}
    /\ seeded = [l \in Listeners |-> {}]
    /\ deletes = [d \in Docs |-> 0]
    /\ ops = 0
    /\ unsubCalls = [l \in Listeners |-> 0]
    /\ earlier = [l \in Listeners |-> {}]

\* no delivery coroutine exists
InitFanIdle ==
    /\ fanPc = "idle"
    /\ fanTask = [listener |-> "none", image |-> FALSE]
    /\ fanList = <<>>
    /\ fanIdx = 1
    /\ attempts = <<>>
    /\ success_count = 0
    /\ failed_count = 0
    /\ resolvedFrom = users

NextScanner == Tick \/ Run \/ SendOk \/ Record \/ SendFail \/ Sleep

\* the scanner alone
InitScannerSpec == InitScanner /\ InitFeedIdle /\ InitFanIdle
SpecScanner == InitScannerSpec /\ [][NextScanner]_vars

\* the scanner under the asyncio loop: a coroutine that can go on is resumed, and
\* an awaited send returns or raises
\* (a class with a lesson at 08:30, well-formed or behind a malformed one, from 08:12)
InitLiveSpec ==
    /\ InitScannerSpec
    /\ now = At(Monday, 8, 12, 0)
    /\ schedule \in { {Lesson("A", Monday, 1, HHMM(8, 30))},
                      {Lesson("A", Monday, 1, <<Num(8)>>), Lesson("A", Monday, 2, HHMM(8, 30))} }
SpecScannerLive == InitLiveSpec /\ [][NextScanner]_vars /\ WF_vars(NextScanner)

\* the scanner around midnight, in a process that can crash and restart
\* (a lesson on Tuesday at 00:03, from Monday 23:58:00 or 23:59:40)
InitMidnightSpec ==
    /\ InitScannerSpec
    /\ schedule = {Lesson("A", Tuesday, 1, HHMM(0, 3))}
    /\ now \in {At(Monday, 23, 58, 0), At(Monday, 23, 59, 40)}
SpecMidnight == InitMidnightSpec /\ [][NextScanner \/ Crash]_vars

\* the scanner at the edges of its windows: a lesson at 08:30 seen from exactly 30,
\* 20, 10, 5 and 0 minutes before, from a second more than 30 minutes before and
\* from a second after its start; a lesson of Tuesday 00:03 seen from Monday
\* 23:33:00 and 23:32:59
WindowTimes ==
    { At(Monday, 7, 59, 59), At(Monday, 8, 0, 0), At(Monday, 8, 10, 0), At(Monday, 8, 20, 0),
      At(Monday, 8, 25, 0), At(Monday, 8, 30, 0), At(Monday, 8, 30, 1),
      At(Monday, 23, 32, 59), At(Monday, 23, 33, 0) }

InitWindowSpec ==
    /\ now \in WindowTimes
    /\ schedule \in { {Lesson("A", Monday, 1, HHMM(8, 30))},
                      {Lesson("A", Tuesday, 1, HHMM(0, 3))} }
    /\ users = [p \in Phones |->
                   [tg_id |-> IF p = "p1" THEN "t1" ELSE NoTg, class_name |-> "A",
                    events_notifications |-> 1]]
    /\ ledger = <<>>
    /\ pc = "ready"
    /\ scanUsers = <<>>
    /\ scanIdx = 1
    /\ scanWin = 1
    /\ upcoming = NotFound
    /\ tick = 0
    /\ checked = <<>>
    /\ deliveries = <<>>
    /\ lastError = "none"
    /\ crashes = 0
    /\ faults = 0
    /\ InitFeedIdle
    /\ InitFanIdle
SpecWindow == InitWindowSpec /\ [][NextScanner]_vars

\* the scanner in the last minutes before two lessons of one class: both at
\* 08:30, or at 08:29 and 08:30 (two subscribers of the class, from 08:26 or 08:27)
InitTwoLessonsSpec ==
    /\ now \in {At(Monday, 8, 26, 0), At(Monday, 8, 27, 0)}
    /\ schedule \in { {Lesson("A", Monday, 1, HHMM(8, 30)), Lesson("A", Monday, 2, HHMM(8, 30))},
                      {Lesson("A", Monday, 1, HHMM(8, 29)), Lesson("A", Monday, 2, HHMM(8, 30))} }
    /\ users = [p \in Phones |->
                   [tg_id |-> IF p = "p1" THEN "t1" ELSE "t2", class_name |-> "A",
                    events_notifications |-> 1]]
    /\ ledger = <<>>
    /\ pc = "ready"
    /\ scanUsers = <<>>
    /\ scanIdx = 1
    /\ scanWin = 1
    /\ upcoming = NotFound
    /\ tick = 0
    /\ checked = <<>>
    /\ deliveries = <<>>
    /\ lastError = "none"
    /\ crashes = 0
    /\ faults = 0
    /\ InitFeedIdle
    /\ InitFanIdle
SpecTwoLessons == InitTwoLessonsSpec /\ [][NextScanner]_vars

\* the scanner in a process that can crash and restart
SpecCrash == InitScannerSpec /\ [][NextScanner \/ Crash]_vars


\* ------------------------------------------- ApplicationsListener, NewsListener
ListenerOrder == <<"applications", "news">>
Exists(l, d) == collection[l][d] # "absent"
ExistingDocs(l, order) == SelectSeq(order, LAMBDA d : Exists(l, d))

\* status == 'new'  /  news_data.get('published')
Qualifies(l, data) ==
    \/ l = "applications" /\ data = "new"
    \/ l = "news" /\ data = "published"

Change(type, d, data) == [type |-> type, id |-> d, data |-> data]
DocRead(l, d) == [id |-> d, data |-> collection[l][d]]

\* applications_listener.db is not None
HasDb(l) == lstate[l] \notin {"created", "no_db"}
StartDone(l) == lstate[l] \in {"no_db", "scan_failed", "subscribed"}
\* main() starts the applications listener, then the news listener
Starting(l) ==
    /\ mainPc = "start"
    /\ ~StartDone(l)
    /\ \A k \in 1..Len(ListenerOrder) :
          ListenerOrder[k] = l => \A j \in 1..(k - 1) : StartDone(ListenerOrder[j])

\* mutant: a listener that could not initialise tries again
MutantInitRetries(l) ==
    /\ mainPc = "start"
    /\ lstate[l] \in {"created", "no_db"}
    /\ \E ok \in BOOLEAN : lstate' = [lstate EXCEPT ![l] = IF ok THEN "db" ELSE "no_db"]
    /\ UNCHANGED <<fanVars, scannerVars, collection, tracking, mainPc, loopRunning, feed, cbBatch,
                   cbIdx, cbPc, tasks, handoffs, adds, skipped, ran, seeded, deletes, ops,
                   unsubCalls, earlier>>

\* _init_firebase: credentials file, initialize_app, firestore.client()
InitFirebase(l) ==
    /\ Starting(l)
    /\ lstate[l] = "created"
    /\ \E ok \in BOOLEAN : lstate' = [lstate EXCEPT ![l] = IF ok THEN "db" ELSE "no_db"]
    /\ UNCHANGED <<fanVars, scannerVars, collection, tracking, mainPc, loopRunning, feed, cbBatch,
                   cbIdx, cbPc, tasks, handoffs, adds, skipped, ran, seeded, deletes, ops,
                   unsubCalls, earlier>>

\* mutant: the seed scan adds nothing to the tracked set
MutantSeedAddsNothing(l, d) == FALSE

\* mutant: the seed scan of the news keeps the unpublished ones
MutantSeedUnpublished(l, d) ==
    \/ l = "applications"
    \/ l = "news" /\ ~Qualifies(l, collection[l][d])

\* for doc in docs: tracking.add(doc.id)  -- every application; the published news
SeedAdds(l, d) ==
    \/ l = "applications"
    \/ l = "news" /\ Qualifies(l, collection[l][d])

\* mutant: the subscription is made although the stream raised part-way
MutantSeedScanContinues(l) ==
    /\ Starting(l)
    /\ lstate[l] = "db"
    /\ LET docs == ExistingDocs(l, DocOrder) IN
       \E n \in 0..Len(docs) :
          LET read == {docs[k] : k \in 1..n} IN
          /\ tracking' = [tracking EXCEPT ![l] = @ \cup {d \in read : SeedAdds(l, d)}]
          /\ seeded' = [seeded EXCEPT ![l] = {DocRead(l, d) : d \in read}]
          /\ lstate' = [lstate EXCEPT ![l] = "seeded"]
    /\ UNCHANGED <<fanVars, scannerVars, collection, mainPc, loopRunning, feed, cbBatch, cbIdx, cbPc,
                   tasks, handoffs, adds, skipped, ran, deletes, ops,
                   unsubCalls, earlier>>

\* start_listening: the full scan of the collection; the stream may raise after
\* `n` documents
SeedScan(l) ==
    /\ Starting(l)
    /\ lstate[l] = "db"
    /\ LET docs == ExistingDocs(l, DocOrder) IN
       \E n \in 0..Len(docs) :
          LET read == {docs[k] : k \in 1..n} IN
          /\ tracking' = [tracking EXCEPT ![l] = @ \cup {d \in read : SeedAdds(l, d)}]
          /\ seeded' = [seeded EXCEPT ![l] = {DocRead(l, d) : d \in read}]
          /\ lstate' = [lstate EXCEPT ![l] = IF n = Len(docs) THEN "seeded" ELSE "scan_failed"]
    /\ UNCHANGED <<fanVars, scannerVars, collection, mainPc, loopRunning, feed, cbBatch, cbIdx, cbPc,
                   tasks, handoffs, adds, skipped, ran, deletes, ops,
                   unsubCalls, earlier>>

\* the first snapshot of a subscription reports every document as ADDED
InitialSnapshot(l) ==
    LET docs == ExistingDocs(l, DocOrder)
    IN [k \in 1..Len(docs) |-> Change("ADDED", docs[k], collection[l][docs[k]])]

\* self.unsubscribe = self.db.collection(...).on_snapshot(self._on_snapshot)
Subscribe(l) ==
    /\ Starting(l)
    /\ lstate[l] = "seeded"
    /\ lstate' = [lstate EXCEPT ![l] = "subscribed"]
    /\ feed' = [feed EXCEPT ![l] = InitialSnapshot(l)]
    /\ UNCHANGED <<fanVars, scannerVars, collection, tracking, mainPc, loopRunning, cbBatch, cbIdx,
                   cbPc, tasks, handoffs, adds, skipped, ran, seeded, deletes, ops,
                   unsubCalls, earlier>>

\* await dp.start_polling(bot): from here the loop runs handlers and submitted tasks
StartPolling ==
    /\ mainPc = "start"
    /\ \A l \in Listeners : StartDone(l)
    /\ mainPc' = "polling"
    /\ UNCHANGED <<fanVars, scannerVars, collection, tracking, lstate, loopRunning, feed, cbBatch,
                   cbIdx, cbPc, tasks, handoffs, adds, skipped, ran, seeded, deletes, ops,
                   unsubCalls, earlier>>

\* what a write to a document makes the feed report
Emit(l, d, old, new) ==
    IF lstate[l] # "subscribed" THEN feed[l]
    ELSE Append(feed[l],
                IF old = "absent" THEN Change("ADDED", d, new)
                ELSE IF new = "absent" THEN Change("REMOVED", d, old)
                ELSE Change("MODIFIED", d, new))

\* what the site writes: a new or re-opened application, a published or
\* unpublished article, a deletion
SiteStates(l) == IF l = "applications" THEN {"new", "absent"}
                 ELSE {"published", "draft", "absent"}

\* the site creates, edits or deletes a document, while the listener is between
\* its seed scan and its subscription or while the bot is polling
ExternalWrite(l, d, st) ==
    /\ mainPc = "polling" \/ lstate[l] = "seeded"
    /\ ops < MaxOps
    /\ ops' = ops + 1
    /\ ~(collection[l][d] = "absent" /\ st = "absent")
    /\ collection' = [collection EXCEPT ![l][d] = st]
    /\ feed' = [feed EXCEPT ![l] = Emit(l, d, collection[l][d], st)]
    /\ UNCHANGED <<fanVars, scannerVars, tracking, lstate, mainPc, loopRunning, cbBatch, cbIdx, cbPc,
                   tasks, handoffs, adds, skipped, ran, seeded, deletes,
                   unsubCalls, earlier>>

\* the feed client calls _on_snapshot(collection_snapshot, changes, read_time) on its thread
FeedDeliver(l) ==
    /\ cbPc[l] = "idle"
    /\ feed[l] # <<>>
    /\ cbBatch' = [cbBatch EXCEPT ![l] = feed[l]]
    /\ cbIdx' = [cbIdx EXCEPT ![l] = 1]
    /\ cbPc' = [cbPc EXCEPT ![l] = "running"]
    /\ feed' = [feed EXCEPT ![l] = <<>>]
    /\ UNCHANGED <<fanVars, scannerVars, collection, tracking, lstate, mainPc, loopRunning, tasks,
                   handoffs, adds, skipped, ran, seeded, deletes, ops,
                   unsubCalls, earlier>>

CurrentChange(l) == cbBatch[l][cbIdx[l]]

\* mutant: the membership test is left out
MutantNoMembershipTest(l, c) ==
    /\ c.type \in {"ADDED", "MODIFIED"}
    /\ Qualifies(l, c.data)

\* change.type.name in ['ADDED', 'MODIFIED'] and <qualifies> and id not in tracking set
ShouldNotify(l, c) ==
    /\ c.type \in {"ADDED", "MODIFIED"}
    /\ Qualifies(l, c.data)
    /\ c.id \notin tracking[l]

\* a qualifying change the callback passes over because its id is tracked
Skip(l, c) ==
    IF c.type \in {"ADDED", "MODIFIED"} /\ Qualifies(l, c.data) THEN {<<c.id, c.type>>} ELSE {}

\* mutant: whatever the collection, the delivery submitted is the one to the subscribers
MutantTaskToSubscribers(l, c) == [listener |-> "news", id |-> c.id, data |-> c.data]

\* self._send_notification_to_admins(app_id, app_data) /
\* self._send_notification_to_all_users(news_id, news_data)
Task(l, c) == [listener |-> l, id |-> c.id, data |-> c.data]

Executed(l, d, ctx) == <<l, d, ctx, Cardinality({r \in ran : r[1] = l /\ r[2] = d}) + 1>>

\* mutant: the callback runs the delivery itself, on the feed client's thread
MutantDeliverOnFeedThread(l, c) ==
    /\ ran' = ran \cup {Executed(l, c.id, "feed")}
    /\ UNCHANGED <<tasks, handoffs>>

\* mutant: the submitted coroutine goes to the front of the loop's queue
MutantSubmitInFront(l, c) ==
    /\ IF loopRunning
       THEN /\ tasks' = <<Task(l, c)>> \o tasks
            /\ handoffs' = [handoffs EXCEPT ![l][c.id] = @ + 1]
       ELSE UNCHANGED <<tasks, handoffs>>
    /\ ran' = ran

\* if self.loop and self.loop.is_running(): asyncio.run_coroutine_threadsafe(...)
SubmitDelivery(l, c) ==
    /\ IF loopRunning
       THEN /\ tasks' = Append(tasks, Task(l, c))
            /\ handoffs' = [handoffs EXCEPT ![l][c.id] = @ + 1]
       ELSE UNCHANGED <<tasks, handoffs>>
    /\ ran' = ran

\* _on_snapshot: the body of `for change in changes` for one change; the callback
\* returns after the last one
OnSnapshotChange(l) ==
    /\ cbPc[l] = "running"
    /\ IF ShouldNotify(l, CurrentChange(l))
       THEN /\ tracking' = [tracking EXCEPT ![l] = @ \cup {CurrentChange(l).id}]
            /\ adds' = [adds EXCEPT ![l][CurrentChange(l).id] = @ + 1]
            /\ SubmitDelivery(l, CurrentChange(l))
            /\ skipped' = skipped
       ELSE /\ skipped' = [skipped EXCEPT ![l] = @ \cup Skip(l, CurrentChange(l))]
            /\ UNCHANGED <<tracking, adds, tasks, handoffs, ran>>
    /\ IF cbIdx[l] < Len(cbBatch[l])
       THEN /\ cbIdx' = [cbIdx EXCEPT ![l] = @ + 1]
            /\ UNCHANGED <<cbPc, cbBatch>>
       ELSE /\ cbIdx' = [cbIdx EXCEPT ![l] = 1]
            /\ cbPc' = [cbPc EXCEPT ![l] = "idle"]
            /\ cbBatch' = [cbBatch EXCEPT ![l] = <<>>]
    /\ UNCHANGED <<fanVars, scannerVars, collection, lstate, mainPc, loopRunning, feed, seeded,
                   deletes, ops,
                   unsubCalls, earlier>>

\* _on_snapshot: a statement of the loop body raises for the current change
\* (doc.to_dict(), the test, the submission): the exception leaves `for change in
\* changes`, `except Exception` logs it and the callback returns; cbBatch keeps
\* what was not handled, the failing change first
OnSnapshotRaises(l) ==
    /\ cbPc[l] = "running"
    /\ faults < MaxFaults
    /\ faults' = faults + 1
    /\ cbBatch' = [cbBatch EXCEPT ![l] = SubSeq(@, cbIdx[l], Len(@))]
    /\ cbIdx' = [cbIdx EXCEPT ![l] = 1]
    /\ cbPc' = [cbPc EXCEPT ![l] = "idle"]
    /\ UNCHANGED <<fanVars, now, users, schedule, ledger, pc, scanUsers, scanIdx, scanWin,
                   upcoming, tick, checked, deliveries, lastError, crashes,
                   collection, tracking, lstate, mainPc, loopRunning, feed, tasks, handoffs,
                   adds, skipped, ran, seeded, deletes, ops,
                   unsubCalls, earlier>>

\* the loop runs a submitted _send_notification_to_admins / _send_notification_to_all_users
RunDelivery ==
    /\ mainPc = "polling"
    /\ LoopFree
    /\ loopRunning
    /\ tasks # <<>>
    /\ ran' = ran \cup {Executed(Head(tasks).listener, Head(tasks).id, "loop")}
    /\ tasks' = Tail(tasks)
    /\ UNCHANGED <<fanVars, scannerVars, collection, tracking, lstate, mainPc, loopRunning, feed,
                   cbBatch, cbIdx, cbPc, handoffs, adds, skipped, seeded, deletes, ops,
                   unsubCalls, earlier>>

\* accept_application_callback / reject_application_callback: update({'status': st})
AdminSetStatus(d, st) ==
    /\ mainPc = "polling"
    /\ LoopFree
    /\ HasDb("applications")
    /\ Exists("applications", d)
    /\ ops < MaxOps
    /\ ops' = ops + 1
    /\ collection' = [collection EXCEPT !["applications"][d] = st]
    /\ feed' = [feed EXCEPT !["applications"] =
                    Emit("applications", d, collection["applications"][d], st)]
    /\ UNCHANGED <<fanVars, scannerVars, tracking, lstate, mainPc, loopRunning, cbBatch, cbIdx, cbPc,
                   tasks, handoffs, adds, skipped, ran, seeded, deletes,
                   unsubCalls, earlier>>

\* delete_application_callback: document(app_id).delete(); tracking_applications.discard(app_id)
AdminDelete(d) ==
    /\ mainPc = "polling"
    /\ LoopFree
    /\ HasDb("applications")
    /\ ops < MaxOps
    /\ ops' = ops + 1
    /\ collection' = [collection EXCEPT !["applications"][d] = "absent"]
    /\ feed' = [feed EXCEPT !["applications"] =
                    IF Exists("applications", d)
                    THEN Emit("applications", d, collection["applications"][d], "absent")
                    ELSE @]
    /\ tracking' = [tracking EXCEPT !["applications"] = @ \ {d}]
    /\ deletes' = [deletes EXCEPT ![d] = @ + 1]
    /\ UNCHANGED <<fanVars, scannerVars, lstate, mainPc, loopRunning, cbBatch, cbIdx, cbPc, tasks,
                   handoffs, adds, skipped, ran, seeded,
                   unsubCalls, earlier>>

\* self.unsubscribe: set by on_snapshot in start_listening, never set back to None
HasHandle(l) == lstate[l] \in {"subscribed", "unsubscribed"}

\* stop_listening: if self.unsubscribe: self.unsubscribe()
Unsubscribed(l) == IF lstate[l] = "subscribed" THEN "unsubscribed" ELSE lstate[l]
StopCalls(l) == IF HasHandle(l) THEN unsubCalls[l] + 1 ELSE unsubCalls[l]

\* main(): finally: applications_listener.stop_listening(); news_listener.stop_listening()
StopListeners ==
    /\ mainPc = "polling"
    /\ mainPc' = "stopped"
    /\ lstate' = [l \in Listeners |-> Unsubscribed(l)]
    /\ unsubCalls' = [l \in Listeners |-> StopCalls(l)]
    /\ feed' = [l \in Listeners |-> <<>>]
    /\ UNCHANGED <<fanVars, scannerVars, collection, tracking, loopRunning, cbBatch, cbIdx, cbPc,
                   tasks, handoffs, adds, skipped, ran, seeded, deletes, ops, earlier>>

\* stop_listening() applied once more to a listener the shutdown has been through
\* (main() itself calls it once per listener)
StopAgain(l) ==
    /\ mainPc = "stopped"
    /\ unsubCalls[l] < MaxOps
    /\ lstate' = [lstate EXCEPT ![l] = Unsubscribed(l)]
    /\ unsubCalls' = [unsubCalls EXCEPT ![l] = StopCalls(l)]
    /\ UNCHANGED <<fanVars, scannerVars, collection, tracking, mainPc, loopRunning, feed, cbBatch,
                   cbIdx, cbPc, tasks, handoffs, adds, skipped, ran, seeded, deletes, ops,
                   earlier>>

\* main() returns: asyncio.run cancels what is left and stops the loop
LoopStops ==
    /\ mainPc = "stopped"
    /\ mainPc' = "exited"
    /\ loopRunning' = FALSE
    /\ tasks' = <<>>
    /\ UNCHANGED <<fanVars, scannerVars, collection, tracking, lstate, feed, cbBatch, cbIdx, cbPc,
                   handoffs, adds, skipped, ran, seeded, deletes, ops,
                   unsubCalls, earlier>>

InitialCollections ==
    { [l \in Listeners |-> [d \in Docs |-> IF d = "d1" THEN st[l] ELSE "absent"]] :
        st \in [Listeners -> {"absent", "q", "nq"}] }

\* "q" / "nq": the qualifying and a non-qualifying state of each collection
Concrete(l, st) ==
    IF st = "q" THEN (IF l = "applications" THEN "new" ELSE "published")
    ELSE IF st = "nq" THEN (IF l = "applications" THEN "accepted" ELSE "draft")
    ELSE st

InitFeed ==
    /\ \E c \in InitialCollections :
          collection = [l \in Listeners |-> [d \in Docs |-> Concrete(l, c[l][d])]]
    /\ tracking = [l \in Listeners |-> {}]
    /\ lstate = [l \in Listeners |-> "created"]
    /\ mainPc = "start"
    /\ loopRunning = TRUE
    /\ feed = [l \in Listeners |-> <<>>]
    /\ cbBatch = [l \in Listeners |-> <<>>]
    /\ cbIdx = [l \in Listeners |-> 1]
    /\ cbPc = [l \in Listeners |-> "idle"]
    /\ tasks = <<>>
    /\ handoffs = [l \in Listeners |-> [d \in Docs |-> 0]]
    /\ adds = [l \in Listeners |-> [d \in Docs |-> 0]]
    /\ skipped = [l \in Listeners |-> {}]
    /\ ran = {}
    /\ seeded = [l \in Listeners |-> {}]
    /\ deletes = [d \in Docs |-> 0]
    /\ ops = 0
    /\ unsubCalls = [l \in Listeners |-> 0]
    /\ earlier = [l \in Listeners |-> {}]

\* the scanner not yet started
InitScannerIdle ==
    /\ now = At(Monday, 8, 12, 0)
    /\ schedule = {}
    /\ users = [p \in Phones |-> [tg_id |-> NoTg, class_name |-> "A", events_notifications |-> 1]]
    /\ ledger = <<>>
    /\ pc = "ready"
    /\ scanUsers = <<>>
    /\ scanIdx = 1
    /\ scanWin = 1
    /\ upcoming = NotFound
    /\ tick = 0
    /\ checked = <<>>
    /\ deliveries = <<>>
    /\ lastError = "none"
    /\ crashes = 0
    /\ faults = 0

NextFeed ==
    \/ \E l \in Listeners : InitFirebase(l) \/ SeedScan(l) \/ Subscribe(l)
    \/ StartPolling
    \/ \E l \in Listeners, d \in Docs : \E st \in SiteStates(l) : ExternalWrite(l, d, st)
    \/ \E l \in Listeners : FeedDeliver(l) \/ OnSnapshotChange(l)
    \/ RunDelivery
    \/ \E d \in Docs : \E st \in {"accepted", "rejected"} : AdminSetStatus(d, st)
    \/ \E d \in Docs : AdminDelete(d)
    \/ StopListeners
    \/ LoopStops

\* asyncio.create_task(check_and_notify_upcoming_classes()): the scanner runs
\* once main() awaits start_polling
ScannerTask == mainPc = "polling" /\ (Tick \/ Run \/ Sleep)

\* main() from start to end: the listeners' start, the scanner, the shutdown
NextMain ==
    \/ \E l \in Listeners : InitFirebase(l) \/ SeedScan(l) \/ Subscribe(l)
    \/ StartPolling
    \/ \E l \in Listeners : FeedDeliver(l) \/ OnSnapshotChange(l)
    \/ ScannerTask
    \/ StopListeners
    \/ LoopStops

\* the two listeners, the site and the administrators
InitFeedSpec == InitScannerIdle /\ InitFeed /\ InitFanIdle
SpecFeed == InitFeedSpec /\ [][NextFeed]_vars
SpecMain == InitFeedSpec /\ [][NextMain]_vars

\* The process ends (main() returned, or it was killed while polling) and is
\* started again: the objects of the old process are gone (tracked sets, handles,
\* the loop and what was queued on it, the scanner task); Firestore keeps the
\* collections and students.db its tables.  The hand-offs of the lifetime that
\* ended are remembered in `earlier`; the other records start anew.
Restart ==
    /\ mainPc \in {"polling", "stopped", "exited"}
    /\ crashes < MaxCrashes
    /\ crashes' = crashes + 1
    /\ earlier' = [l \in Listeners |-> earlier[l] \cup {d \in Docs : handoffs[l][d] > 0}]
    /\ tracking' = [l \in Listeners |-> {}]
    /\ lstate' = [l \in Listeners |-> "created"]
    /\ mainPc' = "start"
    /\ loopRunning' = TRUE
    /\ feed' = [l \in Listeners |-> <<>>]
    /\ cbBatch' = [l \in Listeners |-> <<>>]
    /\ cbIdx' = [l \in Listeners |-> 1]
    /\ cbPc' = [l \in Listeners |-> "idle"]
    /\ tasks' = <<>>
    /\ handoffs' = [l \in Listeners |-> [d \in Docs |-> 0]]
    /\ adds' = [l \in Listeners |-> [d \in Docs |-> 0]]
    /\ skipped' = [l \in Listeners |-> {}]
    /\ ran' = {}
    /\ seeded' = [l \in Listeners |-> {}]
    /\ deletes' = [d \in Docs |-> 0]
    /\ ops' = 0
    /\ unsubCalls' = [l \in Listeners |-> 0]
    /\ pc' = "ready"
    /\ scanUsers' = <<>>
    /\ scanIdx' = 1
    /\ scanWin' = 1
    /\ upcoming' = NotFound
    /\ checked' = <<>>
    /\ lastError' = "none"
    /\ UNCHANGED <<fanVars, collection, now, users, schedule, ledger, tick, deliveries, faults>>

\* the listeners over several lifetimes of the process, with the site and an
\* administrator at work on one document
NextRestart ==
    \/ \E l \in Listeners : InitFirebase(l) \/ SeedScan(l) \/ Subscribe(l)
    \/ StartPolling
    \/ \E l \in Listeners : \E st \in SiteStates(l) : ExternalWrite(l, "d1", st)
    \/ \E l \in Listeners : FeedDeliver(l) \/ OnSnapshotChange(l)
    \/ AdminDelete("d1")
    \/ Restart
SpecRestart == InitFeedSpec /\ [][NextRestart]_vars

\* the site writes between a listener's seed scan and its subscription
GapWrite(l, d, st) == lstate[l] = "seeded" /\ ExternalWrite(l, d, st)

\* the listeners' start with the site at work in the gap between the seed scan
\* and the subscription, and the first batches
NextGap ==
    \/ \E l \in Listeners : InitFirebase(l) \/ SeedScan(l) \/ Subscribe(l)
    \/ \E l \in Listeners, d \in Docs : \E st \in SiteStates(l) : GapWrite(l, d, st)
    \/ StartPolling
    \/ \E l \in Listeners : FeedDeliver(l) \/ OnSnapshotChange(l)
    \/ RunDelivery
SpecGap == InitFeedSpec /\ [][NextGap]_vars

\* main() and the listeners' stop_listening as an operation of its own
NextStop == NextMain \/ \E l \in Listeners : StopAgain(l)
SpecStop == InitFeedSpec /\ [][NextStop]_vars

\* the listeners and the site, with change events whose handling raises
NextFeedFault ==
    \/ \E l \in Listeners : InitFirebase(l) \/ SeedScan(l) \/ Subscribe(l)
    \/ StartPolling
    \/ \E l \in Listeners, d \in Docs : \E st \in SiteStates(l) : ExternalWrite(l, d, st)
    \/ \E l \in Listeners : FeedDeliver(l) \/ OnSnapshotChange(l) \/ OnSnapshotRaises(l)
    \/ RunDelivery
SpecFeedFault == InitFeedSpec /\ [][NextFeedFault]_vars

\* ----------- _send_notification_to_admins, _send_notification_to_all_users
FanPhones == {"p1", "p2", "p3", "p4", "p5"}
FanOrder == <<"p1", "p2", "p3", "p4", "p5">>
TgIds == <<"t1", "t2", "t3", "t4", "t5">>
TgOf(p) == TgIds[CHOOSE k \in 1..Len(FanOrder) : FanOrder[k] = p]

FanUser(tg, role, opt) ==
    [tg_id |-> tg, class_name |-> "A", events_notifications |-> opt, role |-> role]

\* the users tables the delivery runs against: five recipients for either pass;
\* a mixed table; a table that yields no recipient
FanDirectories ==
    { [p \in FanPhones |-> FanUser(TgOf(p), "admin", 1)],
      [p \in FanPhones |->
          IF p = "p1" THEN FanUser(TgOf(p), "admin", 1)
          ELSE IF p = "p2" THEN FanUser(TgOf(p), "student", 1)
          ELSE IF p = "p3" THEN FanUser(TgOf(p), "admin", 0)
          ELSE IF p = "p4" THEN FanUser(TgOf(p), "student", 0)
          ELSE FanUser(NoTg, "admin", 1)],
      [p \in FanPhones |-> FanUser(TgOf(p), "student", 0)] }

FanTasks ==
    { [listener |-> "applications", image |-> FALSE],
      [listener |-> "news", image |-> FALSE],
      [listener |-> "news", image |-> TRUE] }

\* mutant: every subscriber with a Telegram id is selected
MutantSelectEveryone(l, u) == u.tg_id # NoTg

\* WHERE role = 'admin' AND tg_id IS NOT NULL
\* WHERE tg_id IS NOT NULL AND events_notifications = 1
FanSelect(l, u) ==
    /\ u.tg_id # NoTg
    /\ \/ l = "applications" /\ u.role = "admin"
       \/ l = "news" /\ u.events_notifications = 1

\* [row[0] for row in cur.fetchall()]
RECURSIVE FanQuery(_, _)
FanQuery(l, order) ==
    IF order = <<>> THEN <<>>
    ELSE (IF FanSelect(l, users[Head(order)]) THEN <<users[Head(order)].tg_id>> ELSE <<>>)
         \o FanQuery(l, Tail(order))

Attempt(i, to, via, ok) == [idx |-> i, to |-> to, via |-> via, ok |-> ok]

\* if image_url and image_url.strip(): send_photo, else send_message
FirstVia == IF fanTask.listener = "news" /\ fanTask.image THEN "photo" ELSE "message"

\* the for loop goes to the next recipient, or the coroutine returns
FanAdvance ==
    IF fanIdx < Len(fanList)
    THEN fanPc' = "send" /\ fanIdx' = fanIdx + 1
    ELSE fanPc' = "done" /\ fanIdx' = fanIdx

\* the loop runs the submitted coroutine up to its first await: the query, the
\* early return when it yields nobody
FanStart ==
    /\ fanPc = "queued"
    /\ fanList' = FanQuery(fanTask.listener, FanOrder)
    /\ resolvedFrom' = users
    /\ fanIdx' = 1
    /\ fanPc' = IF FanQuery(fanTask.listener, FanOrder) = <<>> THEN "done" ELSE "send"
    /\ UNCHANGED <<scannerVars, feedVars, fanTask, attempts, success_count, failed_count>>

\* mutant: a failed send ends the pass
MutantFailAborts ==
    /\ fanPc = "send"
    /\ faults < MaxFaults
    /\ faults' = faults + 1
    /\ attempts' = Append(attempts, Attempt(fanIdx, fanList[fanIdx], FirstVia, FALSE))
    /\ failed_count' = failed_count + 1
    /\ fanPc' = "done"
    /\ UNCHANGED <<feedVars, now, users, schedule, ledger, pc, scanUsers, scanIdx, scanWin,
                   upcoming, tick, checked, deliveries, lastError, crashes,
                   fanTask, fanList, fanIdx, success_count, resolvedFrom>>

\* await self.bot.send_photo(...) / send_message(...) returns: success_count += 1
\* (the administrators' pass: logging.info)
FanSendOk ==
    /\ fanPc = "send"
    /\ attempts' = Append(attempts, Attempt(fanIdx, fanList[fanIdx], FirstVia, TRUE))
    /\ success_count' = success_count + 1
    /\ FanAdvance
    /\ UNCHANGED <<scannerVars, feedVars, fanTask, fanList, failed_count, resolvedFrom>>

\* the first send to the recipient raises: a photo is followed by the send without
\* it; a message is counted in `except Exception` (failed_count += 1, or
\* logging.error in the administrators' pass)
FanSendFail ==
    /\ fanPc = "send"
    /\ faults < MaxFaults
    /\ faults' = faults + 1
    /\ attempts' = Append(attempts, Attempt(fanIdx, fanList[fanIdx], FirstVia, FALSE))
    /\ IF FirstVia = "photo"
       THEN fanPc' = "fallback" /\ UNCHANGED <<fanIdx, failed_count>>
       ELSE failed_count' = failed_count + 1 /\ FanAdvance
    /\ UNCHANGED <<feedVars, now, users, schedule, ledger, pc, scanUsers, scanIdx, scanWin,
                   upcoming, tick, checked, deliveries, lastError, crashes,
                   fanTask, fanList, success_count, resolvedFrom>>

\* the send_message that follows a failed send_photo returns: success_count += 1
FanFallbackOk ==
    /\ fanPc = "fallback"
    /\ attempts' = Append(attempts, Attempt(fanIdx, fanList[fanIdx], "message", TRUE))
    /\ success_count' = success_count + 1
    /\ FanAdvance
    /\ UNCHANGED <<scannerVars, feedVars, fanTask, fanList, failed_count, resolvedFrom>>

\* mutant: the send without the photo is tried again after it raised
MutantFallbackRetries ==
    /\ fanPc = "fallback"
    /\ faults < MaxFaults
    /\ faults' = faults + 1
    /\ attempts' = Append(attempts, Attempt(fanIdx, fanList[fanIdx], "message", FALSE))
    /\ UNCHANGED <<feedVars, now, users, schedule, ledger, pc, scanUsers, scanIdx, scanWin,
                   upcoming, tick, checked, deliveries, lastError, crashes,
                   fanPc, fanTask, fanList, fanIdx, success_count, failed_count, resolvedFrom>>

\* the send_message that follows a failed send_photo raises: except: failed_count += 1
FanFallbackFail ==
    /\ fanPc = "fallback"
    /\ faults < MaxFaults
    /\ faults' = faults + 1
    /\ attempts' = Append(attempts, Attempt(fanIdx, fanList[fanIdx], "message", FALSE))
    /\ failed_count' = failed_count + 1
    /\ FanAdvance
    /\ UNCHANGED <<feedVars, now, users, schedule, ledger, pc, scanUsers, scanIdx, scanWin,
                   upcoming, tick, checked, deliveries, lastError, crashes,
                   fanTask, fanList, success_count, resolvedFrom>>

db_toggle_events_notifications(phone) ==
    [users EXCEPT ![phone].events_notifications = 1 - @]

\* the "Уведомлення про події" / toggle_notifications handler of a subscriber
ToggleNotifications(p) ==
    /\ LoopFree
    /\ ops < MaxOps
    /\ ops' = ops + 1
    /\ users' = db_toggle_events_notifications(p)
    /\ UNCHANGED <<fanVars, now, schedule, ledger, pc, scanUsers, scanIdx, scanWin, upcoming,
                   tick, checked, deliveries, lastError, crashes, faults,
                   collection, tracking, lstate, mainPc, loopRunning, feed, cbBatch, cbIdx,
                   cbPc, tasks, handoffs, adds, skipped, ran, seeded, deletes,
                   unsubCalls, earlier>>

\* UPDATE users SET fio = ?, class_name = ?, role = ? WHERE phone = ?
db_upsert_user(phone, class_name, role) ==
    [users EXCEPT ![phone].class_name = class_name, ![phone].role = role]

\* mutant: registering again clears the subscriber's rows of the ledger
MutantRegisterForgets(p) ==
    /\ LoopFree
    /\ ops < MaxOps
    /\ ops' = ops + 1
    /\ users' = db_upsert_user(p, users[p].class_name, "student")
    /\ ledger' = SelectSeq(ledger, LAMBDA row : row.user_phone # p)
    /\ UNCHANGED <<fanVars, now, schedule, pc, scanUsers, scanIdx, scanWin, upcoming,
                   tick, checked, deliveries, lastError, crashes, faults,
                   collection, tracking, lstate, mainPc, loopRunning, feed, cbBatch, cbIdx,
                   cbPc, tasks, handoffs, adds, skipped, ran, seeded, deletes,
                   unsubCalls, earlier>>

\* a subscriber registers again: db_upsert_user(phone_norm, fio, class_name, role="учень")
Register(p) ==
    /\ LoopFree
    /\ ops < MaxOps
    /\ ops' = ops + 1
    /\ users' = db_upsert_user(p, users[p].class_name, "student")
    /\ UNCHANGED <<fanVars, now, schedule, ledger, pc, scanUsers, scanIdx, scanWin, upcoming,
                   tick, checked, deliveries, lastError, crashes, faults,
                   collection, tracking, lstate, mainPc, loopRunning, feed, cbBatch, cbIdx,
                   cbPc, tasks, handoffs, adds, skipped, ran, seeded, deletes,
                   unsubCalls, earlier>>

\* a subscriber goes through the registration again from the same Telegram
\* account and confirms class c: db_upsert_user(phone_norm, fio, class_name,
\* role="учень"); db_bind_tg_to_phone(tg_id, phone_norm)
RegisterClass(p, c) ==
    /\ LoopFree
    /\ ops < MaxOps
    /\ ops' = ops + 1
    /\ users[p].tg_id # NoTg
    /\ users[p].class_name # c
    /\ users' = db_upsert_user(p, c, "student")
    /\ UNCHANGED <<fanVars, now, schedule, ledger, pc, scanUsers, scanIdx, scanWin, upcoming,
                   tick, checked, deliveries, lastError, crashes, faults,
                   collection, tracking, lstate, mainPc, loopRunning, feed, cbBatch, cbIdx,
                   cbPc, tasks, handoffs, adds, skipped, ran, seeded, deletes,
                   unsubCalls, earlier>>

\* a delivery was handed off and waits for the loop
InitFanout ==
    /\ users \in FanDirectories
    /\ fanTask \in FanTasks
    /\ fanPc = "queued"
    /\ fanList = <<>>
    /\ fanIdx = 1
    /\ attempts = <<>>
    /\ success_count = 0
    /\ failed_count = 0
    /\ resolvedFrom = users
    /\ now = At(Monday, 8, 12, 0)
    /\ schedule = {}
    /\ ledger = <<>>
    /\ pc = "ready"
    /\ scanUsers = <<>>
    /\ scanIdx = 1
    /\ scanWin = 1
    /\ upcoming = NotFound
    /\ tick = 0
    /\ checked = <<>>
    /\ deliveries = <<>>
    /\ lastError = "none"
    /\ crashes = 0
    /\ faults = 0

NextFanout == FanStart \/ FanSendOk \/ FanSendFail \/ FanFallbackOk \/ FanFallbackFail

\* the scanner while subscribers switch their notifications on and off
\* (two subscribers of one class with a lesson at 08:30, from 08:09:30 or 08:28:30)
InitToggleSpec ==
    /\ InitScannerSpec
    /\ schedule = {Lesson("A", Monday, 1, HHMM(8, 30))}
    /\ now \in {At(Monday, 8, 9, 30), At(Monday, 8, 28, 30)}
    /\ users["p2"].tg_id # NoTg /\ users["p2"].class_name = "A"
NextToggle == NextScanner \/ \E p \in Phones : ToggleNotifications(p)
SpecScannerToggle == InitToggleSpec /\ [][NextToggle]_vars

\* one fan-out pass
InitFanoutSpec == InitFanout /\ InitFeedIdle
SpecFanout == InitFanoutSpec /\ [][NextFanout]_vars

\* one fan-out pass while subscribers change their settings
NextDirectory ==
    \/ NextFanout
    \/ \E p \in FanPhones : ToggleNotifications(p)
    \/ \E p \in FanPhones : Register(p)
SpecFanoutDirectory == InitFanoutSpec /\ [][NextDirectory]_vars

\* The whole bot with one submission: the listeners and their
\* callbacks on the feed thread, and on the loop the scanner, the submitted
\* deliveries and the handlers of subscribers and administrators
\* (one subscriber, an administrator, of class A with a lesson at 08:30, from 08:12; the site adds
\* the submission)
ScannerSteps == mainPc = "polling" /\ NextScanner

InitBotSpec ==
    /\ InitFeed
    /\ \A l \in Listeners : collection[l]["d1"] = "absent"
    /\ now = At(Monday, 8, 12, 0)
    /\ schedule = {Lesson("A", Monday, 1, HHMM(8, 30))}
    /\ users = [p \in Phones |-> FanUser(IF p = "p1" THEN TgOf(p) ELSE NoTg, "admin", 1)]
    /\ ledger = <<>>
    /\ pc = "ready"
    /\ scanUsers = <<>>
    /\ scanIdx = 1
    /\ scanWin = 1
    /\ upcoming = NotFound
    /\ tick = 0
    /\ checked = <<>>
    /\ deliveries = <<>>
    /\ lastError = "none"
    /\ crashes = 0
    /\ faults = 0
    /\ InitFanIdle

NextBot ==
    \/ \E l \in Listeners : InitFirebase(l) \/ SeedScan(l) \/ Subscribe(l)
    \/ StartPolling
    \/ ExternalWrite("applications", "d1", "new")
    \/ \E l \in Listeners : FeedDeliver(l) \/ OnSnapshotChange(l)
    \/ ScannerSteps
    \/ RunDelivery
    \/ AdminSetStatus("d1", "accepted")
    \/ AdminDelete("d1")
    \/ ToggleNotifications("p1")
    \/ Register("p1")
SpecBot == InitBotSpec /\ [][NextBot]_vars

\* the scanner while a subscriber registers again with another class
\* (two subscribers of class A; classes A and B each have their lesson #1 on
\* Monday at 08:30; from 08:12)
InitReclassSpec ==
    /\ now = At(Monday, 8, 12, 0)
    /\ schedule = {Lesson("A", Monday, 1, HHMM(8, 30)), Lesson("B", Monday, 1, HHMM(8, 30))}
    /\ users = [p \in Phones |-> FanUser(TgOf(p), "student", 1)]
    /\ ledger = <<>>
    /\ pc = "ready"
    /\ scanUsers = <<>>
    /\ scanIdx = 1
    /\ scanWin = 1
    /\ upcoming = NotFound
    /\ tick = 0
    /\ checked = <<>>
    /\ deliveries = <<>>
    /\ lastError = "none"
    /\ crashes = 0
    /\ faults = 0
    /\ InitFeedIdle
    /\ InitFanIdle

NextReclass == NextScanner \/ \E p \in Phones, c \in {"A", "B"} : RegisterClass(p, c)
SpecReclass == InitReclassSpec /\ [][NextReclass]_vars

\* ------------------------------------------------------------------ claims
SameLesson(a, b) ==
    /\ a.phone = b.phone
    /\ a.class_name = b.class_name
    /\ a.day_name = b.day_name
    /\ a.lesson_number = b.lesson_number

Looked(p, w) == \E k \in 1..Len(checked) : checked[k][1] = p /\ checked[k][2] = w
Matched(p, w) ==
    \E k \in 1..Len(checked) : checked[k][1] = p /\ checked[k][2] = w /\ checked[k][3] # 0

C2_OncePerOccurrence ==
    \A i, j \in 1..Len(deliveries) :
        (i < j /\ SameLesson(deliveries[i], deliveries[j]))
            => deliveries[i].occurrence # deliveries[j].occurrence

\* C3: when the 5- and 10-minute windows yield nothing and the 20-minute window
\* matches, the delivery goes out through the 20-minute window and the
\* 30-minute window is not checked afterwards.
C3_WindowEscalation ==
    \A p \in Phones :
        (Looked(p, 5) /\ ~Matched(p, 5) /\ Looked(p, 10) /\ ~Matched(p, 10) /\ Matched(p, 20))
            => /\ ~Looked(p, 30)
               /\ \A k \in 1..Len(deliveries) :
                     (deliveries[k].phone = p /\ deliveries[k].tick = tick)
                         => deliveries[k].window = 20

\* The start of a lesson of tomorrow as an absolute time, and the lessons of
\* tomorrow that start within the window.
TomorrowStart(l) == (DateOf(now) + 1) * DaySeconds + ParseStart(l.start_time).sec
TomorrowInWindow(p, w) ==
    {l \in schedule :
        /\ l.class_name = users[p].class_name
        /\ l.day_name = (WeekdayOf(now) + 1) % 7
        /\ ParseStart(l.start_time).kind = "ok"
        /\ TomorrowStart(l) - now >= 0
        /\ TomorrowStart(l) - now <= w * 60}
TodayInWindow(p, w) ==
    {l \in schedule :
        /\ l.class_name = users[p].class_name
        /\ l.day_name = WeekdayOf(now)
        /\ ParseStart(l.start_time).kind = "ok"
        /\ DateOf(now) * DaySeconds + ParseStart(l.start_time).sec - now >= 0
        /\ DateOf(now) * DaySeconds + ParseStart(l.start_time).sec - now <= w * 60}

\* C4: when no lesson of today qualifies, the lookup returns the lesson of
\* tomorrow (lowest ordinal) whose start, taken as a full date and time, lies
\* within the window of now; at Monday 23:58 a Tuesday 00:03 lesson is returned
\* for the 5-minute window.
C4_DayRollover ==
    \A p \in Phones : \A k \in 1..Len(check_windows) :
        LET w == check_windows[k]
            r == db_get_upcoming_class(p, w)
        IN (r.kind # "IndexError" /\ TodayInWindow(p, w) = {})
            => /\ (r.kind = "lesson") = (TomorrowInWindow(p, w) # {})
               /\ r.kind = "lesson"
                    => /\ r.day = "tomorrow"
                       /\ r.lesson \in TomorrowInWindow(p, w)
                       /\ \A o \in TomorrowInWindow(p, w) :
                             r.lesson.lesson_number <= o.lesson_number
               /\ (now = At(Monday, 23, 58, 0)
                     /\ Lesson(users[p].class_name, Tuesday, 1, HHMM(0, 3)) \in schedule
                     /\ w = 5)
                    => r = Found(Lesson(users[p].class_name, Tuesday, 1, HHMM(0, 3)), "tomorrow")

\* the scanner, at Monday 23:58, found the Tuesday 00:03 lesson through the
\* 5-minute window and delivered it
C4_Witness ==
    /\ now = At(Monday, 23, 58, 0)
    /\ checked = << <<"p1", 5, 1, 1, "absent">> >>
    /\ Len(deliveries) = 1
    /\ deliveries[1].occurrence = DateOf(now) + 1
    /\ deliveries[1].day_name = Tuesday

\* C5: a ledger row is written only after the send for that subscriber and
\* lesson returned, right after it (before anything else is scanned), with the
\* time the send returned; a send that raises leaves the ledger as it was.
C5_RecordAfterSend ==
    /\ Len(ledger) = Len(deliveries) - (IF pc = "sent" THEN 1 ELSE 0)
    /\ \A k \in 1..Len(ledger) :
          ledger[k] = LedgerRow(deliveries[k].phone, deliveries[k].class_name,
                                deliveries[k].day_name, deliveries[k].lesson_number,
                                deliveries[k].at)
    /\ pc = "sent" => deliveries[Len(deliveries)].phone = scanUsers[scanIdx].phone

\* a send raised and a later one succeeded and was recorded
C5_Witness ==
    /\ faults > 0
    /\ Len(ledger) = 1
    /\ Len(deliveries) = 1
    /\ pc = "run"
    /\ scanIdx = 2

DeliveriesOfKey(d) ==
    {k \in 1..Len(deliveries) :
        SameLesson(deliveries[k], d) /\ DateOf(deliveries[k].at) = DateOf(d.at)}
RowsOfKey(d) ==
    {k \in 1..Len(ledger) :
        /\ ledger[k].user_phone = d.phone
        /\ ledger[k].class_name = d.class_name
        /\ ledger[k].day_name = d.day_name
        /\ ledger[k].lesson_number = d.lesson_number
        /\ DateOf(ledger[k].sent_date) = DateOf(d.at)}

\* C6 as stated: with crashes and restarts, no DedupKey (subscriber, class,
\* weekday, ordinal, date) is delivered twice.
C6_NoDuplicateUnderCrash ==
    \A k \in 1..Len(deliveries) : Cardinality(DeliveriesOfKey(deliveries[k])) <= 1

\* C6 amended: a crash never leaves a ledger row without a delivery (nothing is
\* missed), and each crash adds at most one delivery for a DedupKey.
C6_CrashDuplicatesOnly ==
    /\ \A k \in 1..Len(ledger) :
          \E i \in 1..Len(deliveries) :
              ledger[k] = LedgerRow(deliveries[i].phone, deliveries[i].class_name,
                                    deliveries[i].day_name, deliveries[i].lesson_number,
                                    deliveries[i].at)
    /\ \A k \in 1..Len(deliveries) :
          /\ Cardinality(RowsOfKey(deliveries[k])) <= Cardinality(DeliveriesOfKey(deliveries[k]))
          /\ Cardinality(DeliveriesOfKey(deliveries[k])) <= 1 + crashes

\* after a crash between send and record the same DedupKey was delivered again
C6_Witness ==
    /\ crashes = 1
    /\ \E k \in 1..Len(deliveries) : Cardinality(DeliveriesOfKey(deliveries[k])) = 2
    /\ Len(ledger) = 1

SeededQualifying(l) == {r.id : r \in {x \in seeded[l] : Qualifies(l, x.data)}}
AddedByScan(l) == {r.id : r \in {x \in seeded[l] : l = "applications" \/ Qualifies(l, x.data)}}
Pending(l, d) == {k \in 1..Len(tasks) : tasks[k].listener = l /\ tasks[k].id = d}
RanFor(l, d) == {r \in ran : r[1] = l /\ r[2] = d}

\* C7 as stated: a document the seed scan found in the qualifying state is never
\* handed off for delivery by a later change event.
C7_SeededNeverHandedOff ==
    \A l \in Listeners : \A d \in SeededQualifying(l) : handoffs[l][d] = 0

\* C7 amended: such a document is handed off by a later change event only after
\* an administrator deleted that submission (which takes its id out of the
\* tracked set); an article is never handed off.
C7_SeededSuppressed ==
    \A l \in Listeners : \A d \in SeededQualifying(l) :
        handoffs[l][d] <= (IF l = "applications" THEN deletes[d] ELSE 0)

\* both listeners passed over a MODIFIED event of a document seeded as qualifying
C7_Witness ==
    \A l \in Listeners :
        \E d \in SeededQualifying(l) : <<d, "MODIFIED">> \in skipped[l] /\ handoffs[l][d] = 0

\* C8 as stated: an id that was added to a tracked set (by the seed scan or by
\* the callback) never causes a hand-off again, whatever events and
\* administrative actions follow.
C8_NeverHandedOffAgain ==
    \A l \in Listeners : \A d \in Docs :
        /\ handoffs[l][d] <= 1
        /\ d \in AddedByScan(l) => handoffs[l][d] = 0

\* C8 amended: accept and reject never lead to another hand-off; each
\* administrative delete of a submission allows one more hand-off of its id; an
\* article id is handed off at most once, and never if the seed scan added it.
C8_HandoffsBoundedByDeletes ==
    \A l \in Listeners : \A d \in Docs :
        handoffs[l][d] <= (IF d \in AddedByScan(l) THEN 0 ELSE 1)
                          + (IF l = "applications" THEN deletes[d] ELSE 0)

\* a submission the seed scan had added was deleted by an administrator and its
\* id was handed off afterwards
C8_Witness ==
    \E d \in AddedByScan("applications") :
        deletes[d] = 1 /\ handoffs["applications"][d] = 1

\* C9: every delivery triggered by the feed runs on the loop, and only after the
\* callback submitted it with run_coroutine_threadsafe; the callback itself
\* resolves no recipients and sends nothing.
C9_DeliveryOnLoopOnly ==
    /\ \A r \in ran : r[3] = "loop"
    /\ \A l \in Listeners : \A d \in Docs :
          Cardinality(RanFor(l, d)) + Cardinality(Pending(l, d)) <= handoffs[l][d]

\* deliveries of both listeners were submitted by the callbacks and run by the loop
C9_Witness ==
    /\ \E r \in ran : r[1] = "applications"
    /\ \E r \in ran : r[1] = "news"
    /\ \A l \in Listeners : cbPc[l] = "idle"

\* C10: the callback never adds an id to the tracked set without scheduling a
\* delivery for it.
C10_AddedImpliesScheduled ==
    \A l \in Listeners : \A d \in Docs : adds[l][d] = handoffs[l][d]

\* the listener's callback has been given, or has handled, a change event
Processed(l) ==
    \/ feed[l] # <<>>
    \/ cbPc[l] = "running"
    \/ skipped[l] # {}
    \/ \E d \in Docs : adds[l][d] > 0 \/ handoffs[l][d] > 0

\* C11: a listener subscribes only from the state its completed full scan left
\* (every existing document read, every one the scan keeps in the tracked set);
\* a scan that failed part-way is final: no subscription follows, and no change
\* event is ever given to or handled by that listener.
C11_SubscribeAfterFullScan ==
    [][\A l \in Listeners :
        /\ (lstate'[l] = "subscribed" /\ lstate[l] # "subscribed") => lstate[l] = "seeded"
        /\ (lstate'[l] = "seeded" /\ lstate[l] # "seeded")
              => /\ {r.id : r \in seeded'[l]} = {d \in Docs : Exists(l, d)}
                 /\ {d \in Docs : Exists(l, d) /\ SeedAdds(l, d)} \subseteq tracking'[l]
        /\ lstate[l] = "scan_failed" => lstate'[l] = "scan_failed"
        /\ Processed(l)' => lstate'[l] \in {"subscribed", "unsubscribed"}]_vars

\* the scan of one listener failed before its existing document was read, the
\* site then wrote a qualifying document to that collection and nothing was
\* handled, while the other listener subscribed after its full scan
C11_Witness ==
    \E l \in Listeners :
        /\ lstate[l] = "scan_failed"
        /\ Exists(l, "d1") /\ seeded[l] = {}
        /\ Exists(l, "d2") /\ Qualifies(l, collection[l]["d2"])
        /\ ~Processed(l)
        /\ \E o \in Listeners \ {l} : lstate[o] = "subscribed" /\ seeded[o] # {}

AttemptsTo(i) == {k \in 1..Len(attempts) : attempts[k].idx = i}
Reached(i) == \E k \in AttemptsTo(i) : attempts[k].ok
\* recipients whose turn is over: all of them once the coroutine returned
Finished == IF fanPc = "done" THEN 1..Len(fanList) ELSE 1..(fanIdx - 1)

C13_OneAttemptEach ==
    \A i \in 1..Len(fanList) : Cardinality(AttemptsTo(i)) <= 1

\* C13 amended: a recipient gets one attempt; only when the article has an image
\* and the send_photo failed does the same recipient get a second attempt, a
\* send_message without the photo; a failed send_message is never followed by
\* another attempt to that recipient.
C13_OneAttemptPlusFallback ==
    \A k, j \in 1..Len(attempts) :
        (k < j /\ attempts[k].idx = attempts[j].idx)
            => /\ fanTask.listener = "news" /\ fanTask.image
               /\ attempts[k].via = "photo" /\ ~attempts[k].ok
               /\ attempts[j].via = "message"
               /\ j = k + 1

\* the photo to the first recipient failed, so did the message sent in its
\* place, and the pass went on to the next recipient
C13_Witness ==
    /\ Len(attempts) >= 3
    /\ attempts[1].idx = 1 /\ attempts[1].via = "photo" /\ ~attempts[1].ok
    /\ attempts[2].idx = 1 /\ attempts[2].via = "message" /\ ~attempts[2].ok
    /\ attempts[3].idx = 2

\* C14: every send of the administrators' pass goes to a subscriber who had the
\* admin role, and every send of the articles' pass to a subscriber whose
\* events_notifications flag was set, in the users table as the delivery task
\* read it when it ran; the list is exactly those subscribers.
C14_RecipientSelection ==
    /\ \A k \in 1..Len(attempts) :
          \E p \in FanPhones :
              /\ resolvedFrom[p].tg_id = attempts[k].to
              /\ fanTask.listener = "applications" => resolvedFrom[p].role = "admin"
              /\ fanTask.listener = "news" => resolvedFrom[p].events_notifications = 1
    /\ fanPc # "queued" =>
          {fanList[i] : i \in 1..Len(fanList)} =
              {resolvedFrom[p].tg_id : p \in
                  {q \in FanPhones :
                      /\ resolvedFrom[q].tg_id # NoTg
                      /\ fanTask.listener = "applications" => resolvedFrom[q].role = "admin"
                      /\ fanTask.listener = "news" => resolvedFrom[q].events_notifications = 1}}

\* a pass left out a subscriber who changed between the hand-off and the
\* run of the task: one who had opted out, one who was no longer administrator
C14_Witness ==
    /\ fanPc = "done"
    /\ Len(attempts) = 4
    /\ \E p \in FanPhones :
          /\ \A k \in 1..Len(attempts) : attempts[k].to # resolvedFrom[p].tg_id
          /\ resolvedFrom[p].tg_id # NoTg
          /\ \/ fanTask.listener = "news" /\ resolvedFrom[p].role = "admin"
                   /\ resolvedFrom[p].events_notifications = 0
             \/ fanTask.listener = "applications" /\ resolvedFrom[p].role = "student"
                   /\ resolvedFrom[p].events_notifications = 1

LookedUp(p) == \E k \in 1..Len(checked) : checked[k][1] = p

\* C15: in a tick the scanner looks lessons up and sends only for subscribers
\* whose events_notifications flag was set at the moment it came to them: the
\* first lookup made for a subscriber in a tick always finds the flag set, and a
\* lesson notification of the tick goes only to a subscriber it looked up; so a
\* subscriber who opted out before their turn, also during a send to another
\* subscriber, gets nothing in that tick nor in later ticks while opted out.
C15_OptedInWhenProcessed ==
    /\ \A k \in 1..Len(checked) :
          (\A j \in 1..(k - 1) : checked[j][1] # checked[k][1]) => checked[k][4] = 1
    /\ \A k \in 1..Len(deliveries) :
          deliveries[k].tick = tick => LookedUp(deliveries[k].phone)

\* the first subscriber was notified in this tick; the second, of the same class,
\* had opted out by the time the scanner came to them and was passed over
C15_Witness ==
    /\ pc = "sleep"
    /\ ops = 1
    /\ users["p1"].events_notifications = 1
    /\ users["p2"].events_notifications = 0
    /\ Len(scanUsers) = 2
    /\ \E k \in 1..Len(deliveries) : deliveries[k].tick = tick /\ deliveries[k].phone = "p1"
    /\ ~LookedUp("p2")
    /\ \A k \in 1..Len(deliveries) : deliveries[k].phone # "p2"

\* the well-formed lessons a lookup has to choose from
InWindow(p, w) == TodayInWindow(p, w) \cup TomorrowInWindow(p, w)

\* C16: a lesson whose stored start time cannot be parsed is skipped alone: every
\* lookup answers as if the schedule held only the well-formed lessons, and no
\* tick is cut short by such a lesson.
C16_MalformedIsolated ==
    /\ \A p \in Phones : \A k \in 1..Len(check_windows) :
          LET r == db_get_upcoming_class(p, check_windows[k]) IN
          /\ r.kind \in {"lesson", "none"}
          /\ (r.kind = "lesson") = (InWindow(p, check_windows[k]) # {})
          /\ r.kind = "lesson" => r.lesson \in InWindow(p, check_windows[k])
    /\ lastError = "none"

\* C17: whatever is raised while one subscriber is processed, the scanner goes on
\* to the remaining subscribers of the tick: a tick never ends with a subscriber
\* of its list not yet reached.
C17_SubscriberIsolation ==
    pc = "sleep" => scanIdx >= Len(scanUsers)

\* C18: the scanner never stops: a tick that ends, normally or in the outer
\* except, is followed by asyncio.sleep(60) and nothing else, the sleep adds
\* exactly one tick interval, and after every tick the next one begins.
C18_RunsForever ==
    /\ [](lastError # "none" => pc \in {"sleep", "ready"})
    /\ [][pc = "sleep" /\ pc' # "sleep" => pc' = "ready" /\ now' = now + TickSeconds]_vars
    /\ (pc = "sleep" /\ tick < MaxTicks) ~> (pc = "run")

\* a tick was begun after an earlier one, and ended in the outer except
C18_Witness ==
    /\ tick >= 2
    /\ pc = "sleep"
    /\ lastError = "IndexError"

\* C19: a listener whose initialisation failed stays as it is for the rest of the
\* process (no retry; stop_listening changes nothing), never scans, subscribes
\* or handles a change; and whatever the listeners' state, the scanner is
\* started with the polling and can always take its next step.
C19_DegradedMode ==
    /\ [][\A l \in Listeners : lstate[l] = "no_db" => lstate'[l] = "no_db"]_vars
    /\ [](\A l \in Listeners :
             lstate[l] = "no_db" => ~Processed(l) /\ tracking[l] = {} /\ seeded[l] = {})
    /\ []((mainPc = "polling" /\ tick < MaxTicks) => ENABLED ScannerTask)

\* the applications listener could not initialise; the news listener was seeded,
\* subscribed and handled its first snapshot; the scanner ran its ticks; main()
\* stopped the listeners
C19_Witness ==
    /\ lstate["applications"] = "no_db"
    /\ lstate["news"] = "unsubscribed"
    /\ skipped["news"] # {}
    /\ tick >= 2
    /\ mainPc = "stopped"

\* C20: an error raised while one changed document is handled costs that
\* document only: when the callback returns, no other change of the batch is
\* left unhandled (and the subscription goes on with the later batches).
C20_DocumentIsolation ==
    \A l \in Listeners : cbPc[l] = "idle" => Len(cbBatch[l]) <= 1

\* the first lookup of the tick that yielded a lesson for its subscriber
FirstYield(k) ==
    /\ checked[k][3] # 0
    /\ \A j \in 1..(k - 1) : checked[j][1] = checked[k][1] => checked[j][3] = 0

DeliveredThisTick(p) ==
    \/ \E k \in 1..Len(deliveries) : deliveries[k].phone = p /\ deliveries[k].tick = tick
    \/ pc \in {"send", "sent"} /\ scanUsers[scanIdx].phone = p

\* C21: when the first window of a tick that yields a lesson for a subscriber
\* yields one whose DedupKey of today is already in the ledger, the tick makes no
\* delivery (and starts no send) to that subscriber and looks through no larger
\* window for them, whatever other lesson a larger window holds.
C21_StopOnAlreadyHandled ==
    \A k \in 1..Len(checked) :
        (FirstYield(k) /\ checked[k][5] = "already")
            => /\ \A j \in (k + 1)..Len(checked) : checked[j][1] # checked[k][1]
               /\ ~DeliveredThisTick(checked[k][1])

\* a tick found the already notified 08:30 lesson through the 5-minute window and
\* ended without a delivery, while the 08:40 lesson lay inside the 20-minute window
C21_Witness ==
    /\ pc = "sleep"
    /\ \E k \in 1..Len(checked) :
          /\ FirstYield(k) /\ checked[k] = <<"p1", 5, 2, 1, "already">>
    /\ \E l \in TodayInWindow("p1", 20) : l.lesson_number = 1
    /\ ~DeliveredThisTick("p1")

\* C22: in one tick no subscriber-lesson pair is looked up and dedup-checked
\* through more than one window, whether the send succeeded or failed.
C22_DedupCheckedOnce ==
    \A j, k \in 1..Len(checked) :
        (j < k /\ checked[j][1] = checked[k][1] /\ checked[j][3] # 0)
            => checked[k][3] # checked[j][3]

\* C23: at exit every listener that subscribed has had its unsubscribe handle
\* invoked, and stopping is idempotent: a listener that never subscribed gets no
\* unsubscribe call, and one already stopped gets no further call.
C23_ShutdownIdempotent ==
    /\ mainPc = "exited" => \A l \in Listeners : lstate[l] # "subscribed"
    /\ \A l \in Listeners : unsubCalls[l] = (IF lstate[l] = "unsubscribed" THEN 1 ELSE 0)

\* C24 as stated: a document handed off in an earlier lifetime of the process is
\* never handed off again after a restart and re-seed.
C24_NoRedeliveryAfterRestart ==
    \A l \in Listeners : \A d \in earlier[l] : handoffs[l][d] = 0

\* C24 amended: a document handed off in an earlier lifetime is not handed off
\* again if the re-seed scan added it to the tracked set (any existing submission,
\* an article published at the scan) and no administrator deleted it since.
C24_ReseededNotRedelivered ==
    \A l \in Listeners : \A d \in earlier[l] :
        (d \in AddedByScan(l) /\ deletes[d] = 0) => handoffs[l][d] = 0

\* after a restart the re-seed scan found a formerly handed-off article published,
\* and a later change event for it was passed over
C24_Witness ==
    /\ crashes = 1
    /\ "d1" \in earlier["news"]
    /\ "d1" \in AddedByScan("news")
    /\ \E c \in skipped["news"] : c[1] = "d1"
    /\ handoffs["news"]["d1"] = 0

\* the documents the seed scan read in a non-qualifying state
SeededNonQualifying(l) == {r.id : r \in {x \in seeded[l] : ~Qualifies(l, x.data)}}

\* C25: for both listeners, once the callback has handled the MODIFIED event that
\* reports a document, seen non-qualifying by the seed scan, in the qualifying
\* state, that document has been handed off (once).
C25_TransitionHandedOff ==
    \A l \in Listeners : \A d \in SeededNonQualifying(l) :
        (<<d, "MODIFIED">> \in skipped[l] \/ adds[l][d] > 0)
            => (handoffs[l][d] = 1 \/ ~loopRunning)

SameKey(a, b) ==
    /\ a.user_phone = b.user_phone
    /\ a.class_name = b.class_name
    /\ a.day_name = b.day_name
    /\ a.lesson_number = b.lesson_number
    /\ DateOf(a.sent_date) = DateOf(b.sent_date)

\* C26: the ledger never holds two rows with the same subscriber, class,
\* weekday, lesson ordinal and calendar date, also when a send is suspended across
\* midnight (the check reads one date, the insert the next) and when the process
\* crashes and restarts.
C26_LedgerUnique ==
    \A i, j \in 1..Len(ledger) : (i < j) => ~SameKey(ledger[i], ledger[j])

\* a send begun before midnight returned after it, its row carries the new date,
\* and a later tick found that row and sent nothing
C26_Witness ==
    /\ Len(ledger) >= 1
    /\ DateOf(ledger[1].sent_date) = Tuesday
    /\ SecondOfDay(ledger[1].sent_date) \in 1..SlowSend
    /\ tick >= 2
    /\ pc = "sleep"
    /\ \E k \in 1..Len(checked) :
          checked[k][1] = ledger[1].user_phone /\ checked[k][5] = "already"

\* what a step may do to the ledger
AppendOnlyStep ==
    /\ Len(ledger') >= Len(ledger)
    /\ SubSeq(ledger', 1, Len(ledger)) = ledger
    /\ ledger' # ledger
         => /\ pc = "sent" /\ pc' = "run"
            /\ Len(ledger') = Len(ledger) + 1
            /\ ledger'[Len(ledger')].user_phone = scanUsers[scanIdx].phone
    /\ (feedVars' # feedVars \/ users' # users) => ledger' = ledger

\* C27: the ledger only grows, by one row at a time, and only in the scanner's
\* record step after a send; every step of a feed callback, a submitted delivery,
\* an opt-in toggle, a registration or an administrator's action leaves it as it is.
C27_AppendOnly == [][AppendOnlyStep]_vars

\* with a row in the ledger, a submitted delivery ran and the subscriber
\* registered again; the row is still there in a later tick
C27_Witness ==
    /\ Len(ledger) = 1
    /\ tick >= 2
    /\ ran # {}
    /\ users["p1"].role = "student"

\* a step taken between the scanner's existence check and its insert
GapStep ==
    pc \in {"send", "sent"}
        => /\ checked' = checked
           /\ \/ ledger' = ledger
              \/ /\ pc = "sent"
                 /\ ledger' = Append(ledger,
                        LedgerRow(scanUsers[scanIdx].phone, scanUsers[scanIdx].class_name,
                                  upcoming.lesson.day_name, upcoming.lesson.lesson_number,
                                  now))

\* C30: from the scanner's existence check (the send is then awaited) to its
\* insert, nothing else checks the ledger or inserts into it: the only change is
\* the scanner's own row for the lesson it sent, made without an await after the
\* send returned; and no key is delivered twice on one date.
C30_NoLockNeeded ==
    /\ [][GapStep]_vars
    /\ [](\A i, j \in 1..Len(deliveries) :
             (i < j /\ SameLesson(deliveries[i], deliveries[j]))
                 => DateOf(deliveries[i].at) # DateOf(deliveries[j].at))

\* while the scanner awaited its send (after a lookup that found the flag set and
\* no row), the subscriber switched the notifications off, a submitted delivery
\* ran, and the send then returned
C30_Witness ==
    /\ pc = "sent"
    /\ checked[Len(checked)][4] = 1
    /\ checked[Len(checked)][5] = "absent"
    /\ users["p1"].events_notifications = 0
    /\ ran # {}

StartSec(l) == ParseStart(l.start_time).sec

\* C28: for every window the lookup returns the lesson with the earliest start
\* among the lessons of the class that start within the window: of today if any
\* qualifies, of tomorrow otherwise; whatever the order of the lesson ordinals.
C28_EarliestLesson ==
    \A p \in Phones : \A k \in 1..Len(check_windows) :
        LET w == check_windows[k]
            r == db_get_upcoming_class(p, w)
            S == IF TodayInWindow(p, w) # {} THEN TodayInWindow(p, w)
                 ELSE TomorrowInWindow(p, w)
        IN r.kind # "IndexError"
            => /\ (r.kind = "lesson") = (S # {})
               /\ r.kind = "lesson"
                    => /\ r.lesson \in S
                       /\ r.day = (IF TodayInWindow(p, w) # {} THEN "today" ELSE "tomorrow")
                       /\ \A o \in S : StartSec(r.lesson) <= StartSec(o)

\* a step as seen from listener l: the feed client's pending changes and the
\* loop's queue are first-in first-out, a batch is the pending changes in their
\* order, the callback goes through it one change after the other, and a
\* delivery is submitted, to the end of the queue, for the change the callback
\* is at
OrderStep(l) ==
    /\ \/ feed'[l] = <<>>
       \/ Len(feed'[l]) >= Len(feed[l]) /\ SubSeq(feed'[l], 1, Len(feed[l])) = feed[l]
    /\ (cbPc[l] = "idle" /\ cbPc'[l] = "running")
          => cbBatch'[l] = feed[l] /\ cbIdx'[l] = 1
    /\ (cbPc[l] = "running" /\ cbPc'[l] = "running")
          => /\ cbBatch'[l] = cbBatch[l]
             /\ cbIdx'[l] \in {cbIdx[l], cbIdx[l] + 1}
    /\ handoffs'[l] # handoffs[l]
          => /\ cbPc[l] = "running"
             /\ cbIdx'[l] # cbIdx[l] \/ cbPc'[l] = "idle"
             /\ handoffs'[l] = [handoffs[l] EXCEPT ![CurrentChange(l).id] = @ + 1]
             /\ tasks' = Append(tasks, Task(l, CurrentChange(l)))
             /\ ShouldNotify(l, CurrentChange(l))
    /\ \/ tasks' = tasks
       \/ tasks' = <<>>
       \/ tasks # <<>> /\ tasks' = Tail(tasks)
       \/ Len(tasks') = Len(tasks) + 1 /\ SubSeq(tasks', 1, Len(tasks)) = tasks

\* C29: for each listener the deliveries are submitted to the loop in the order
\* in which the feed client delivered the qualifying changes, across batches and
\* inside a batch (the two listeners are not ordered against each other).
C29_FeedOrder == [][\A l \in Listeners : OrderStep(l)]_vars

\* the deliveries for d2 and then d1 of the news wait on the loop, in the order of
\* their change events, with a delivery of the other listener submitted as well
C29_Witness ==
    /\ Len(tasks) >= 2
    /\ \E i, j \in 1..Len(tasks) :
          /\ i < j
          /\ tasks[i].listener = "news" /\ tasks[i].id = "d2"
          /\ tasks[j].listener = "news" /\ tasks[j].id = "d1"
    /\ cbPc["news"] = "idle"

\* a step as seen from listener l's tracked set: once the listener is subscribed
\* the set changes only in a step of l's callback, by the id of the change it is
\* at; and while the callback stands at a change, no step of another context
\* alters what its test `id not in tracking` will say
CallbackOwnsStep(l) ==
    /\ (HasHandle(l) /\ tracking'[l] # tracking[l])
          => /\ cbPc[l] = "running"
             /\ cbIdx'[l] # cbIdx[l] \/ cbPc'[l] = "idle"
             /\ tracking'[l] = tracking[l] \cup {CurrentChange(l).id}
    /\ (cbPc[l] = "running" /\ cbPc'[l] = "running" /\ cbIdx'[l] = cbIdx[l])
          => (CurrentChange(l).id \in tracking'[l]) = (CurrentChange(l).id \in tracking[l])

\* C31: each listener's tracked set is read and written by one execution context
\* only (the feed thread's callback, once subscribed), so no step of a handler on
\* the loop, such as the administrative delete of a submission, changes the
\* outcome of the callback's membership check-then-add.
C31_TrackedSetOneContext == [][\A l \in Listeners : CallbackOwnsStep(l)]_vars

\* the feed client handing listener l a batch, or l's callback handling a change
\* of it, in a process that lives on
ChangeEventStep(l) ==
    /\ crashes' = crashes
    /\ \/ cbPc[l] = "idle" /\ cbPc'[l] = "running"
       \/ cbPc[l] = "running" /\ (cbIdx'[l] # cbIdx[l] \/ cbPc'[l] = "idle")

\* what a change event of listener l leaves alone: the other listener's tracked
\* set, callback and counters, and the deliveries of the other kind (none is
\* submitted, none is run)
OtherUntouched(l) ==
    \A o \in Listeners \ {l} :
        /\ tracking'[o] = tracking[o]
        /\ handoffs'[o] = handoffs[o]
        /\ adds'[o] = adds[o]
        /\ skipped'[o] = skipped[o]
        /\ cbPc'[o] = cbPc[o] /\ cbIdx'[o] = cbIdx[o] /\ cbBatch'[o] = cbBatch[o]
        /\ feed'[o] = feed[o]
        /\ ran' = ran
        /\ \/ tasks' = tasks
           \/ /\ Len(tasks') = Len(tasks) + 1
              /\ SubSeq(tasks', 1, Len(tasks)) = tasks
              /\ tasks'[Len(tasks')].listener = l

IndependentStep == \A l \in Listeners : ChangeEventStep(l) => OtherUntouched(l)

\* C32: the two listeners are independent: a change event on the submissions
\* collection never modifies the articles' tracked set nor submits a delivery to
\* the opted-in subscribers, and a change event on the articles collection never
\* modifies the submissions' tracked set nor submits a delivery to administrators.
C32_ListenersIndependent == [][IndependentStep]_vars

\* a submission was handed off to the administrators while the news listener,
\* subscribed with a published article it tracks, has handed off nothing; the
\* submissions' tracked set did not gain the article, and no delivery to the
\* subscribers is queued
C32_Witness ==
    /\ handoffs["applications"]["d1"] = 1
    /\ lstate["news"] = "subscribed"
    /\ collection["news"]["d1"] = "published"
    /\ tracking["news"] = {"d1"}
    /\ handoffs["news"]["d1"] = 0
    /\ tasks = <<Task("applications", Change("ADDED", "d1", "new"))>>

\* the moment a lesson the lookup returned starts, as a full date and time
AbsStart(r) ==
    (IF r.day = "tomorrow" THEN DateOf(now) + 1 ELSE DateOf(now)) * DaySeconds
        + ParseStart(r.lesson.start_time).sec

\* the starts, as full dates and times, of the well-formed lessons of p's class
\* of today and of tomorrow
StartsOf(p) ==
    { DateOf(now) * DaySeconds + ParseStart(l.start_time).sec :
        l \in {x \in schedule : /\ x.class_name = users[p].class_name
                                /\ x.day_name = WeekdayOf(now)
                                /\ ParseStart(x.start_time).kind = "ok"} }
    \cup
    { TomorrowStart(l) :
        l \in {x \in schedule : /\ x.class_name = users[p].class_name
                                /\ x.day_name = (WeekdayOf(now) + 1) % 7
                                /\ ParseStart(x.start_time).kind = "ok"} }

\* C33: window bounds are inclusive and exclude the past: a lesson that starts
\* exactly now or exactly `window` minutes from now matches the window; one that
\* starts later than that does not; one that has already started matches no
\* window, be it of today or of tomorrow.
C33_WindowBounds ==
    \A p \in Phones : \A k \in 1..Len(check_windows) :
        LET w == check_windows[k]
            r == db_get_upcoming_class(p, w)
        IN /\ r.kind = "lesson" => now <= AbsStart(r) /\ AbsStart(r) <= now + w * 60
           /\ r.kind # "IndexError"
                => /\ now \in StartsOf(p) => r.kind = "lesson"
                   /\ (now + w * 60) \in StartsOf(p) => r.kind = "lesson"
                   /\ (\A s \in StartsOf(p) : s < now \/ s > now + w * 60) => r.kind = "none"

\* the scanner found a lesson that starts exactly as many minutes from now as the
\* window it looked through is wide, and awaits the send
C33_Witness ==
    /\ pc = "send"
    /\ AbsStart(upcoming) - now = check_windows[scanWin] * 60
    /\ checked[Len(checked)][2] = check_windows[scanWin]

\* C34: the ledger row written after a scanner delivery carries the class of the
\* lesson that was delivered, also when the subscriber registered with another
\* class while the scanner awaited a send to an earlier subscriber of the tick;
\* so no later tick delivers that lesson to the subscriber again on that date.
C34_RecordedClassIsDelivered ==
    /\ \A k \in 1..Len(ledger) :
          k <= Len(deliveries) => ledger[k].class_name = deliveries[k].class_name
    /\ \A i, j \in 1..Len(deliveries) :
          (/\ i < j
           /\ deliveries[i].phone = deliveries[j].phone
           /\ SameLesson(deliveries[i], deliveries[j]))
             => DateOf(deliveries[i].at) # DateOf(deliveries[j].at)

\* the lessons of today, with a well-formed start, of the class of a subscriber
\* who has a Telegram id and has the notifications on
DueLessons(p) ==
    {l \in schedule : /\ users[p].tg_id # NoTg
                      /\ users[p].events_notifications = 1
                      /\ l.class_name = users[p].class_name
                      /\ l.day_name = WeekdayOf(now)
                      /\ ParseStart(l.start_time).kind = "ok"}

NotifiedInTime(p, l) ==
    \E k \in 1..Len(deliveries) :
        /\ deliveries[k].phone = p
        /\ deliveries[k].class_name = l.class_name
        /\ deliveries[k].day_name = l.day_name
        /\ deliveries[k].lesson_number = l.lesson_number
        /\ deliveries[k].at <= DateOf(now) * DaySeconds + StartSec(l)

\* C35: every lesson of an opted-in subscriber's class is notified before it
\* starts, when the scanner ticked every minute up to the start and no send
\* failed or was slow, also when another lesson of the class starts at the same
\* time or started earlier and was notified: once a tick that falls on or after
\* the start has ended, the delivery for the lesson has been made, in time.
C35_EveryLessonNotified ==
    \A p \in Phones : \A l \in DueLessons(p) :
        (/\ faults = 0
         /\ pc = "sleep"
         /\ lastError = "none"
         /\ now >= DateOf(now) * DaySeconds + StartSec(l))
            => NotifiedInTime(p, l)

\* the sends the current tick started for subscriber p: each lookup that found a
\* lesson not yet in the ledger is followed by the await of its send
SendsStarted(p) == {k \in 1..Len(checked) : checked[k][1] = p /\ checked[k][5] = "absent"}

\* no subscriber has two deliveries made by one tick
OneDeliveryPerTick ==
    \A i, j \in 1..Len(deliveries) :
        (i < j /\ deliveries[i].phone = deliveries[j].phone)
            => deliveries[i].tick # deliveries[j].tick

\* C36: in one tick a subscriber gets at most one delivered notification, and a
\* send that failed for a subscriber is not attempted again for that subscriber
\* in the same tick: a tick starts at most one send per subscriber.
C36_OneAttemptPerTick ==
    /\ OneDeliveryPerTick
    /\ \A p \in Phones : Cardinality(SendsStarted(p)) <= 1

\* the first batch of listener l has been handled: subscribed, nothing pending,
\* the callback returned
FirstBatchDone(l) == lstate[l] = "subscribed" /\ feed[l] = <<>> /\ cbPc[l] = "idle"

\* the documents the seed scan of l read in the qualifying state
SeenQualifying(l) == {r.id : r \in {x \in seeded[l] : Qualifies(l, x.data)}}

\* C37: with the first batch reporting every document of the collection as
\* added, a document that came into the qualifying state between the seed scan
\* and the subscription is handed off exactly once, and a document the scan
\* seeded is not handed off by the first batch (the only writes are those made
\* in the gap, so the first batch is all the callback gets).
C37_NoLossInGap ==
    \A l \in Listeners : \A d \in Docs :
        FirstBatchDone(l)
            => /\ (Qualifies(l, collection[l][d]) /\ d \notin SeenQualifying(l))
                     => handoffs[l][d] = 1
               /\ d \in SeenQualifying(l) => handoffs[l][d] = 0

====
